---- MODULE Spec2Model ----
(***************************************************************************)
(* Model of docx-mcp: the table operations the MCP server exposes over a   *)
(* document held in memory (create/add/delete rows, get/set cell values)   *)
(* and the table structure analysis (header detection, merge detection,    *)
(* per-cell style extraction, style consistency).                          *)
(*                                                                         *)
(* The document library's objects are modelled by the parts the code       *)
(* reads and writes: a table is its grid-column count, its style name and  *)
(* its rows of cells; a cell is its paragraphs (alignment, runs with text  *)
(* and font), the gridSpan attribute of its element and its tcPr children  *)
(* (vMerge, shd, vAlign, tcBorders).                                       *)
(*                                                                         *)
(* Optional values (Python None or a value) are <<>> or <<v>>.  Texts are  *)
(* sequences of one-character strings, so that trimming, truthiness and    *)
(* number parsing are computed as the code computes them; so are colors    *)
(* (six hexadecimal digits) and the val of vAlign.                         *)
(***************************************************************************)
EXTENDS Integers, Sequences, FiniteSets, TLC

VARIABLES
    document,   \* the loaded document: [paragraphs, tables]
    response    \* the OperationResponse of the last call (with the call's name)

vars == <<document, response>>

\* ------------------------------------------------------------ bounds
MaxRows == 2        \* rows of a table drawn or created
MaxCols == 2        \* grid columns of a table drawn or created
MaxMarked == 2      \* cells of a drawn table that differ from a fresh cell
MaxCells == 2       \* cells of the table that calls build
MaxTables == 2      \* tables of a document that calls build
MaxParagraphs == 2  \* paragraphs of a document that is loaded

\* ------------------------------------------------------------ Python values
None == <<>>
Some(v) == <<v>>

\* truthiness of an Optional[str] held as a string: None and "" are falsy
Truthy(o) == o # None /\ o[1] # ""

\* the same for a string held as a sequence of characters
TruthyText(o) == o # None /\ o[1] # <<>>

\* str.isspace() of one character, over the characters the model uses
IsSpace(ch) == ch \in {" ", "\n", "\t", "\r", "\f"}

RECURSIVE LStrip(_)
LStrip(s) == IF s # <<>> /\ IsSpace(Head(s)) THEN LStrip(Tail(s)) ELSE s

RECURSIVE RStrip(_)
RStrip(s) ==
    IF s # <<>> /\ IsSpace(s[Len(s)]) THEN RStrip(SubSeq(s, 1, Len(s) - 1)) ELSE s

\* str.strip()
Strip(s) == RStrip(LStrip(s))

Digits == <<"0", "1", "2", "3", "4", "5", "6", "7", "8", "9">>
IsDigit(ch) == \E i \in 1..10 : Digits[i] = ch
DigitVal(ch) == (CHOOSE i \in 1..10 : Digits[i] = ch) - 1

RECURSIVE DigitsVal(_, _)
DigitsVal(s, acc) ==
    IF s = <<>> THEN acc ELSE DigitsVal(Tail(s), 10 * acc + DigitVal(Head(s)))

\* int(s) for a str s: surrounding whitespace ignored, an optional sign,
\* then at least one decimal digit; anything else raises ValueError (ok = FALSE)
PyInt(s) ==
    LET t == Strip(s)
        signed == t # <<>> /\ Head(t) \in {"+", "-"}
        ds == IF signed THEN Tail(t) ELSE t
        good == ds # <<>> /\ \A i \in 1..Len(ds) : IsDigit(ds[i])
    IN  IF ~good THEN [ok |-> FALSE, val |-> 0]
        ELSE [ok |-> TRUE,
              val |-> IF signed /\ Head(t) = "-" THEN 0 - DigitsVal(ds, 0)
                      ELSE DigitsVal(ds, 0)]

RECURSIVE JoinLines(_)
JoinLines(ps) ==
    IF ps = <<>> THEN <<>>
    ELSE IF Len(ps) = 1 THEN ps[1]
    ELSE ps[1] \o <<"\n">> \o JoinLines(Tail(ps))

RECURSIVE ConcatRuns(_)
ConcatRuns(rs) == IF rs = <<>> THEN <<>> ELSE Head(rs).text \o ConcatRuns(Tail(rs))

\* cell.text: the paragraphs' texts joined by newlines, a paragraph's text
\* being the concatenation of its runs' texts
CellText(cell) ==
    JoinLines([i \in 1..Len(cell.paragraphs) |-> ConcatRuns(cell.paragraphs[i].runs)])

\* ------------------------------------------------------------ cells
\* texts the drawn cells and the calls use
Red == <<"F", "F", "0", "0", "0", "0">>
Yellow == <<"F", "F", "F", "F", "0", "0">>
Green == <<"0", "0", "F", "F", "0", "0">>
Center == <<"c", "e", "n", "t", "e", "r">>

NoBorders == [top |-> None, bottom |-> None, left |-> None, right |-> None]

EmptyTcPr == [vMerge |-> None, shd |-> None, vAlign |-> None, tcBorders |-> None]

PlainRun(text) ==
    [text |-> text, name |-> None, size |-> None, rgb |-> None,
     bold |-> None, italic |-> None, underline |-> None, strike |-> None]

\* a cell as Table.add_row / Document.add_table make it: one empty paragraph
\* without runs, a tcPr holding only the cell width
FreshCell ==
    [paragraphs |-> <<[alignment |-> None, runs |-> <<>>]>>,
     gridSpan |-> None,
     tcPr |-> Some(EmptyTcPr)]

\* ------------------------------------------------------------ merge detection
WNS == "http://schemas.openxmlformats.org/wordprocessingml/2006/main"

\* the classification inside analyze_cell_merge (it runs only when
\* span_cols > 1 or v_merge is not None)
MergeTypeOf(span_cols, v_merge) ==
    IF span_cols > 1 /\ v_merge # None THEN "both"
    ELSE IF span_cols > 1 THEN "horizontal"
    ELSE IF v_merge # None THEN "vertical"
    ELSE "none"

\* v_merge as analyze_cell_merge computes it: the val attribute of the
\* vMerge element, None when tcPr or vMerge is missing and also when the
\* element carries no val attribute
VMergeOf(cell) ==
    IF cell.tcPr # None /\ cell.tcPr[1].vMerge # None
    THEN cell.tcPr[1].vMerge[1]
    ELSE None

\* int(grid_span) if grid_span else 1
SpanColsOf(grid_span) ==
    IF TruthyText(grid_span) THEN PyInt(grid_span[1]) ELSE [ok |-> TRUE, val |-> 1]

\* a variant of MergeInfo whose end column is one past the last column spanned
MergeInfoEndExclusive(merge_type, row_idx, col_idx, span_rows, span_cols) ==
    [merge_type |-> merge_type,
     start_row |-> row_idx,
     end_row |-> row_idx + span_rows - 1,
     start_col |-> col_idx,
     end_col |-> col_idx + span_cols,
     span_rows |-> span_rows,
     span_cols |-> span_cols]

\* MergeInfo(...) as analyze_cell_merge builds it
MergeInfo(merge_type, row_idx, col_idx, span_rows, span_cols) ==
    [merge_type |-> merge_type,
     start_row |-> row_idx,
     end_row |-> row_idx + span_rows - 1,
     start_col |-> col_idx,
     end_col |-> col_idx + span_cols - 1,
     span_rows |-> span_rows,
     span_cols |-> span_cols]

\* analyze_cell_merge: None, or Some(MergeInfo)
analyze_cell_merge(cell, row_idx, col_idx) ==
    LET v_merge == VMergeOf(cell)
        parsed == SpanColsOf(cell.gridSpan)
        span_rows == 1
    IN  IF ~parsed.ok THEN None            \* except Exception: pass
        ELSE IF parsed.val > 1 \/ v_merge # None
        THEN Some(MergeInfo(MergeTypeOf(parsed.val, v_merge),
                            row_idx, col_idx, span_rows, parsed.val))
        ELSE None

\* ------------------------------------------------------------ style extraction
\* alignment_map.get(paragraph.alignment)
AlignmentName(a) ==
    IF a = 0 THEN Some("left")
    ELSE IF a = 1 THEN Some("center")
    ELSE IF a = 2 THEN Some("right")
    ELSE IF a = 3 THEN Some("justify")
    ELSE None

\* the border loop of extract_cell_formatting: each side is looked up under
\* the DEFAULT namespace of the tcBorders element (nsmap[None]); without a
\* default namespace the lookup raises KeyError on the first side, which
\* ends the extraction with no border read
BordersOf(tcPr) ==
    IF tcPr = None \/ tcPr[1].tcBorders = None THEN [raised |-> FALSE, borders |-> NoBorders]
    ELSE LET b == tcPr[1].tcBorders[1] IN
         IF b.nsDefault = None THEN [raised |-> TRUE, borders |-> NoBorders]
         ELSE [raised |-> FALSE,
               borders |-> [side \in {"top", "bottom", "left", "right"} |->
                              IF b.nsDefault = Some(WNS) /\ b.sides[side] # None
                              THEN Some([style |-> b.sides[side][1].val,
                                         width |-> b.sides[side][1].sz,
                                         color |-> b.sides[side][1].color])
                              ELSE None]]

extract_cell_formatting(cell) ==
    LET hasPara == cell.paragraphs # <<>>
        para == cell.paragraphs[1]
        hasRun == hasPara /\ para.runs # <<>>
        run == para.runs[1]
        tcPr == cell.tcPr
        hasTcPr == tcPr # None
    IN  [font_family |-> IF hasRun /\ Truthy(run.name) THEN run.name ELSE None,
         font_size |-> IF hasRun /\ run.size # None /\ run.size[1] # 0
                       THEN run.size ELSE None,
         font_color |-> IF hasRun /\ run.rgb # None THEN run.rgb ELSE None,
         is_bold |-> hasRun /\ run.bold = Some(TRUE),
         is_italic |-> hasRun /\ run.italic = Some(TRUE),
         is_underlined |-> hasRun /\ run.underline = Some(TRUE),
         is_strikethrough |-> FALSE,
         horizontal_alignment |-> IF hasPara /\ para.alignment # None
                                  THEN AlignmentName(para.alignment[1]) ELSE None,
         vertical_alignment |-> IF hasTcPr /\ tcPr[1].vAlign # None
                                THEN tcPr[1].vAlign[1] ELSE None,
         background_color |-> IF hasTcPr /\ tcPr[1].shd # None /\ TruthyText(tcPr[1].shd[1])
                              THEN tcPr[1].shd[1] ELSE None,
         borders |-> BordersOf(tcPr).borders]

\* the formatting the analysis records when cell detail is not requested
NoFormatting ==
    [font_family |-> None, font_size |-> None, font_color |-> None,
     is_bold |-> FALSE, is_italic |-> FALSE, is_underlined |-> FALSE,
     is_strikethrough |-> FALSE, horizontal_alignment |-> None,
     vertical_alignment |-> None, background_color |-> None,
     borders |-> NoBorders]

\* ------------------------------------------------------------ table analysis
RECURSIVE Flatten(_)
Flatten(ss) == IF ss = <<>> THEN <<>> ELSE Head(ss) \o Flatten(Tail(ss))

RECURSIVE Present(_)
\* the values of the entries of a sequence that are not None, in order
Present(os) ==
    IF os = <<>> THEN <<>>
    ELSE IF Head(os) = None THEN Present(Tail(os))
    ELSE <<Head(os)[1]>> \o Present(Tail(os))

\* a variant of FirstRowTexts that trims leading whitespace only
FirstRowTextsLeftTrimmed(table) ==
    [c \in 1..Len(table.rows[1]) |-> LStrip(CellText(table.rows[1][c]))]

\* first_row_texts of analyze_table_structure
FirstRowTexts(table) ==
    [c \in 1..Len(table.rows[1]) |-> Strip(CellText(table.rows[1][c]))]

\* a variant of HasHeaderRow that tests the texts without trimming them
HasHeaderRowUntrimmed(table) ==
    /\ table.rows # <<>>
    /\ \A c \in 1..Len(table.rows[1]) : CellText(table.rows[1][c]) # <<>>

\* has_header_row: all(text for text in first_row_texts), for a table with rows
HasHeaderRow(table) ==
    /\ table.rows # <<>>
    /\ \A c \in 1..Len(table.rows[1]) : FirstRowTexts(table)[c] # <<>>

\* MergeInfo as to_dict writes it
MergeDict(m) ==
    [type |-> m.merge_type, start_row |-> m.start_row, end_row |-> m.end_row,
     start_col |-> m.start_col, end_col |-> m.end_col,
     span_rows |-> m.span_rows, span_cols |-> m.span_cols]

\* a variant of CellDict that takes a cell for empty only when its text has no
\* character at all
CellDictEmptyUntrimmed(cell, row_idx, col_idx, formatting) ==
    LET merge_info == analyze_cell_merge(cell, row_idx, col_idx) IN
    [position |-> [row |-> row_idx, column |-> col_idx],
     content |-> [text |-> CellText(cell), is_empty |-> CellText(cell) = <<>>],
     text_format |-> [font_family |-> formatting.font_family,
                      font_size |-> formatting.font_size,
                      font_color |-> formatting.font_color,
                      bold |-> formatting.is_bold,
                      italic |-> formatting.is_italic,
                      underlined |-> formatting.is_underlined,
                      strikethrough |-> formatting.is_strikethrough],
     alignment |-> [horizontal |-> formatting.horizontal_alignment,
                    vertical |-> formatting.vertical_alignment],
     background |-> [color |-> formatting.background_color],
     borders |-> formatting.borders,
     merge |-> IF merge_info = None THEN None ELSE Some(MergeDict(merge_info[1]))]

\* CellStyleAnalysis.to_dict for the cell at (row_idx, col_idx)
CellDict(cell, row_idx, col_idx, formatting) ==
    LET merge_info == analyze_cell_merge(cell, row_idx, col_idx) IN
    [position |-> [row |-> row_idx, column |-> col_idx],
     content |-> [text |-> CellText(cell), is_empty |-> Strip(CellText(cell)) = <<>>],
     text_format |-> [font_family |-> formatting.font_family,
                      font_size |-> formatting.font_size,
                      font_color |-> formatting.font_color,
                      bold |-> formatting.is_bold,
                      italic |-> formatting.is_italic,
                      underlined |-> formatting.is_underlined,
                      strikethrough |-> formatting.is_strikethrough],
     alignment |-> [horizontal |-> formatting.horizontal_alignment,
                    vertical |-> formatting.vertical_alignment],
     background |-> [color |-> formatting.background_color],
     borders |-> formatting.borders,
     merge |-> IF merge_info = None THEN None ELSE Some(MergeDict(merge_info[1]))]

\* the formatting recorded for a cell: extracted only when detail is requested
CellFormatting(cell, include_cell_details) ==
    IF include_cell_details THEN extract_cell_formatting(cell) ELSE NoFormatting

Positions(table) ==
    UNION {{<<r, c>> : c \in 1..Len(table.rows[r])} : r \in 1..Len(table.rows)}

\* the style sets of analyze_table_structure: filled, for every cell, from the
\* formatting extracted for it, and only inside `if include_cell_details`
StyleSets(table, include_cell_details) ==
    LET fmts == IF include_cell_details
                THEN {extract_cell_formatting(table.rows[p[1]][p[2]]) : p \in Positions(table)}
                ELSE {}
        infos == UNION {{f.borders[side] : side \in {"top", "bottom", "left", "right"}} : f \in fmts}
    IN  [font_families |-> {f.font_family[1] : f \in {g \in fmts : Truthy(g.font_family)}},
         font_sizes |-> {f.font_size[1] : f \in {g \in fmts : g.font_size # None /\ g.font_size[1] # 0}},
         colors |-> {f.font_color[1] : f \in {g \in fmts : TruthyText(g.font_color)}},
         background_colors |->
             {f.background_color[1] : f \in {g \in fmts : TruthyText(g.background_color)}},
         alignments |->
             {f.horizontal_alignment[1] : f \in {g \in fmts : Truthy(g.horizontal_alignment)}},
         border_styles |->
             {b[1].style[1] : b \in {i \in infos : i # None /\ Truthy(i[1].style)}}]

\* a variant of Consistent that wants exactly one value
ConsistentExactlyOne(values) == Cardinality(values) = 1

\* consistent_* = len(set) <= 1
Consistent(values) == Cardinality(values) <= 1

\* TableStructureAnalysis.to_dict as analyze_table_structure builds it for
\* document.tables[table_index] (table_index counted from 0)
AnalyzeTable(table, table_index, include_cell_details) ==
    LET has_header_row == HasHeaderRow(table)
        cells == [r \in 1..Len(table.rows) |->
                    [c \in 1..Len(table.rows[r]) |->
                        CellDict(table.rows[r][c], r - 1, c - 1,
                                 CellFormatting(table.rows[r][c], include_cell_details))]]
        merge_regions == Present(Flatten([r \in 1..Len(table.rows) |->
                            [c \in 1..Len(table.rows[r]) |-> cells[r][c].merge]]))
        sets == StyleSets(table, include_cell_details)
    IN  [table_info |-> [index |-> table_index,
                         rows |-> Len(table.rows),
                         columns |-> IF table.rows # <<>> THEN table.columns ELSE 0,
                         style_name |-> table.style],
         header_info |-> [has_header |-> has_header_row,
                          header_row_index |-> IF has_header_row THEN Some(0) ELSE None,
                          header_cells |-> IF has_header_row
                                           THEN Some(FirstRowTexts(table)) ELSE None],
         cells |-> cells,
         merge_analysis |-> [merged_cells_count |-> Len(merge_regions),
                             merge_regions |-> merge_regions],
         style_consistency |-> [fonts |-> Consistent(sets.font_families),
                                alignment |-> Consistent(sets.alignments),
                                borders |-> Consistent(sets.border_styles)],
         style_summary |-> [font_families |-> sets.font_families,
                            font_sizes |-> sets.font_sizes,
                            colors |-> sets.colors,
                            background_colors |-> sets.background_colors]]

\* ------------------------------------------------------------ responses
Success(op, data) == [op |-> op, status |-> "success", data |-> data]
Error(op, message) == [op |-> op, status |-> "error", data |-> message]

\* validate_table_index: None, or the error it raises
validate_table_index(table_index, max_tables) ==
    IF table_index < 0 THEN Some([error |-> "table_index_negative", got |-> table_index])
    ELSE IF table_index >= max_tables
    THEN Some([error |-> "table_index_out_of_range", got |-> table_index,
               has |-> max_tables])
    ELSE None

\* cell.text = text: the cell's content is replaced by one new paragraph
\* holding one new run with the text; tcPr and the cell's attributes stay
SetCellText(cell, text) ==
    [cell EXCEPT !.paragraphs = <<[alignment |-> None, runs |-> <<PlainRun(text)>>]>>]

\* a cell for which analyze_cell_merge raises inside its try block
MergeDetectionRaises(cell) == ~SpanColsOf(cell.gridSpan).ok

\* a variant of analyze_table_structure that writes the trimmed header texts
\* back into the cells of row 0
analyze_table_structure_trimming(table_index, include_cell_details) ==
    LET op == [name |-> "analyze_table_structure", table_index |-> table_index,
               include_cell_details |-> include_cell_details]
        bad == validate_table_index(table_index, Len(document.tables))
        table == document.tables[table_index + 1]
    IN  /\ response' = IF bad # None THEN Error(op, bad[1])
                       ELSE Success(op, AnalyzeTable(table, table_index, include_cell_details))
        /\ document' =
             IF bad # None \/ table.rows = <<>> THEN document
             ELSE [document EXCEPT !.tables[table_index + 1].rows[1] =
                      [c \in 1..Len(table.rows[1]) |->
                          SetCellText(table.rows[1][c], Strip(CellText(table.rows[1][c])))]]

\* a variant of analyze_table_structure in which an exception of merge
\* detection is not swallowed and fails the analysis
analyze_table_structure_unguarded(table_index, include_cell_details) ==
    LET op == [name |-> "analyze_table_structure", table_index |-> table_index,
               include_cell_details |-> include_cell_details]
        bad == validate_table_index(table_index, Len(document.tables))
        table == document.tables[table_index + 1]
    IN  /\ response' =
             IF bad # None THEN Error(op, bad[1])
             ELSE IF \E p \in Positions(table) : MergeDetectionRaises(table.rows[p[1]][p[2]])
             THEN Error(op, [error |-> "failed_to_analyze"])
             ELSE Success(op, AnalyzeTable(table, table_index, include_cell_details))
        /\ UNCHANGED document

\* analyze_table_structure(file_path, table_index, include_cell_details)
analyze_table_structure(table_index, include_cell_details) ==
    LET op == [name |-> "analyze_table_structure", table_index |-> table_index,
               include_cell_details |-> include_cell_details]
        bad == validate_table_index(table_index, Len(document.tables))
    IN  /\ response' = IF bad # None THEN Error(op, bad[1])
                       ELSE Success(op, AnalyzeTable(document.tables[table_index + 1],
                                                     table_index, include_cell_details))
        /\ UNCHANGED document

\* the TableStructureAnalysis analyze_all_tables builds from a table's report:
\* every section is taken over except the cells and the merge regions, which
\* are passed empty
Rebuilt(report) ==
    [report EXCEPT !.cells = <<>>, !.merge_analysis.merge_regions = <<>>]

\* datetime.now().isoformat() at the time of a call
Timestamps == {"t1", "t2"}

\* analyze_all_tables(file_path, include_cell_details)
analyze_all_tables(include_cell_details) ==
    LET op == [name |-> "analyze_all_tables",
               include_cell_details |-> include_cell_details]
        table_analyses == [i \in 1..Len(document.tables) |->
                             Rebuilt(AnalyzeTable(document.tables[i], i - 1,
                                                  include_cell_details))]
    IN  /\ \E now \in Timestamps :
              response' = IF document.tables = <<>>
                          THEN Success(op, [total_tables |-> 0, tables |-> <<>>])
                          ELSE Success(op, [file_info |->
                                              [total_tables |-> Len(table_analyses),
                                               analysis_timestamp |-> now],
                                            tables |-> table_analyses])
        /\ UNCHANGED document

NextAnalysis ==
    \E table_index \in -1..Len(document.tables), include_cell_details \in BOOLEAN :
        analyze_table_structure(table_index, include_cell_details)

\* ------------------------------------------------------------ documents drawn
NoResponse == [op |-> [name |-> "none"], status |-> "none", data |-> None]

\* a cell holding one paragraph with one run
RunCell(run, alignment, gridSpan, tcPr) ==
    [paragraphs |-> <<[alignment |-> alignment, runs |-> <<run>>]>>,
     gridSpan |-> gridSpan,
     tcPr |-> tcPr]

FontRun(text, name, size, rgb, bold, italic) ==
    [text |-> text, name |-> name, size |-> size, rgb |-> rgb,
     bold |-> bold, italic |-> italic, underline |-> None, strike |-> None]

BorderElem(val) == Some([val |-> val, sz |-> Some("4"), color |-> Some("000000")])

TcBorders(nsDefault, top, left) ==
    Some([nsDefault |-> nsDefault,
          sides |-> [top |-> top, bottom |-> None, left |-> left, right |-> None]])

\* the document holds one table of at most MaxRows x MaxCols cells in which at
\* most MaxMarked cells are drawn from `palette` and the others are fresh
DrawnDocument(palette) ==
    \E rows \in 0..MaxRows, cols \in 1..MaxCols :
      \E marks \in {m \in SUBSET ((1..rows) \X (1..cols)) : Cardinality(m) <= MaxMarked} :
        \E f \in [marks -> palette] :
          document =
            [paragraphs |-> 0,
             tables |-> <<[columns |-> cols,
                           style |-> Some("Table Grid"),
                           rows |-> [r \in 1..rows |-> [c \in 1..cols |->
                                       IF <<r, c>> \in marks THEN f[<<r, c>>]
                                       ELSE FreshCell]]]>>]

\* cells that differ in their text (and, for two of them, in formatting)
TextCells ==
    {RunCell(PlainRun(<<>>), None, None, Some(EmptyTcPr)),
     RunCell(PlainRun(<<" ">>), None, None, Some(EmptyTcPr)),
     RunCell(PlainRun(<<"a">>), None, None, Some(EmptyTcPr)),
     RunCell(PlainRun(<<" ", "a">>), None, None, Some(EmptyTcPr)),
     RunCell(FontRun(<<"b", "\n">>, Some("Arial"), Some(12), None, Some(TRUE), None),
             Some(1), None, Some(EmptyTcPr)),
     [paragraphs |-> <<[alignment |-> None, runs |-> <<PlainRun(<<"a">>)>>],
                       [alignment |-> None, runs |-> <<>>]>>,
      gridSpan |-> None, tcPr |-> Some(EmptyTcPr)]}

\* cells that differ in font, alignment, shading and borders
StyleCells ==
    {RunCell(FontRun(<<"a">>, Some("Arial"), Some(12), Some(Red), Some(TRUE), None),
             Some(1), None, Some(EmptyTcPr)),
     RunCell(FontRun(<<"a">>, Some("Times"), None, None, Some(FALSE), Some(TRUE)),
             Some(2), None,
             Some([EmptyTcPr EXCEPT !.shd = Some(Some(Yellow)),
                                    !.vAlign = Some(Some(Center))])),
     RunCell(FontRun(<<>>, Some(""), Some(0), None, None, None), Some(4), None, None),
     RunCell(PlainRun(<<"a">>), None, None,
             Some([EmptyTcPr EXCEPT !.tcBorders =
                      TcBorders(Some(WNS), BorderElem(Some("single")), BorderElem(None))])),
     RunCell(PlainRun(<<"a">>), Some(1), None,
             Some([EmptyTcPr EXCEPT !.tcBorders =
                      TcBorders(Some(WNS), BorderElem(Some("double")), None)])),
     RunCell(FontRun(<<"a">>, Some("Arial"), None, None, None, None), Some(2), None,
             Some([EmptyTcPr EXCEPT !.shd = Some(Some(Green)),
                                    !.tcBorders =
                      TcBorders(None, BorderElem(Some("double")), None)]))}

\* cells that differ in their gridSpan attribute and their vMerge element; the
\* first also has borders that cannot be read, the fifth a gridSpan that is not
\* a number
MergeCells ==
    {RunCell(FontRun(<<"a">>, Some("Arial"), None, None, Some(TRUE), None), Some(1),
             Some(<<"2">>),
             Some([EmptyTcPr EXCEPT !.shd = Some(Some(Yellow)),
                                    !.tcBorders =
                      TcBorders(None, BorderElem(Some("single")), None)])),
     RunCell(PlainRun(<<"a">>), None, None,
             Some([EmptyTcPr EXCEPT !.vMerge = Some(Some("restart"))])),
     RunCell(PlainRun(<<" ">>), None, Some(<<"3">>),
             Some([EmptyTcPr EXCEPT !.vMerge = Some(Some("continue"))])),
     RunCell(PlainRun(<<"a">>), None, None,
             Some([EmptyTcPr EXCEPT !.vMerge = Some(None)])),
     RunCell(FontRun(<<"b">>, Some("Times"), None, None, None, Some(TRUE)), Some(2),
             Some(<<"x">>),
             Some([EmptyTcPr EXCEPT !.vMerge = Some(Some("restart")),
                                    !.tcBorders =
                      TcBorders(Some(WNS), BorderElem(Some("double")), None)])),
     RunCell(PlainRun(<<>>), None, Some(<<"1">>), None)}

\* the cells above and a cell whose gridSpan attribute is zero beside a vMerge
\* element
SpanCells ==
    MergeCells \cup
    {RunCell(PlainRun(<<"a">>), None, Some(<<"0">>),
             Some([EmptyTcPr EXCEPT !.vMerge = Some(Some("restart"))]))}

InitHeader == DrawnDocument(TextCells) /\ response = NoResponse
InitStyle == DrawnDocument(StyleCells) /\ response = NoResponse
InitMerge == DrawnDocument(MergeCells) /\ response = NoResponse
InitSpan == DrawnDocument(SpanCells) /\ response = NoResponse

SpecHeader == InitHeader /\ [][NextAnalysis]_vars
SpecStyle == InitStyle /\ [][NextAnalysis]_vars
SpecMerge == InitMerge /\ [][NextAnalysis]_vars
SpecSpan == InitSpan /\ [][NextAnalysis]_vars

\* ------------------------------------------------------------ strings
UpperLetters ==
    <<"A", "B", "C", "D", "E", "F", "G", "H", "I", "J", "K", "L", "M",
      "N", "O", "P", "Q", "R", "S", "T", "U", "V", "W", "X", "Y", "Z">>
LowerLetters ==
    <<"a", "b", "c", "d", "e", "f", "g", "h", "i", "j", "k", "l", "m",
      "n", "o", "p", "q", "r", "s", "t", "u", "v", "w", "x", "y", "z">>

LowerChar(ch) ==
    IF \E i \in 1..26 : UpperLetters[i] = ch
    THEN LowerLetters[CHOOSE i \in 1..26 : UpperLetters[i] = ch] ELSE ch
UpperChar(ch) ==
    IF \E i \in 1..26 : LowerLetters[i] = ch
    THEN UpperLetters[CHOOSE i \in 1..26 : LowerLetters[i] = ch] ELSE ch

\* the letter U+0130 (capital I with a dot above) and the mark U+0307 (combining
\* dot above), each one character of a text
CapitalIDot == "U+0130"
CombiningDot == "U+0307"

\* what str.lower() makes of one character: U+0130 becomes the two characters
\* "i" and U+0307, every other character of the texts drawn becomes one
LowerChars(ch) == IF ch = CapitalIDot THEN <<"i", CombiningDot>> ELSE <<LowerChar(ch)>>

\* str.lower() and str.upper()
RECURSIVE Lower(_)
Lower(s) == IF s = <<>> THEN <<>> ELSE LowerChars(Head(s)) \o Lower(Tail(s))
Upper(s) == [i \in 1..Len(s) |-> UpperChar(s[i])]

RECURSIVE LStripChar(_, _)
\* str.lstrip(ch) for one character ch
LStripChar(s, ch) == IF s # <<>> /\ Head(s) = ch THEN LStripChar(Tail(s), ch) ELSE s

HexDigits ==
    <<"0", "1", "2", "3", "4", "5", "6", "7", "8", "9", "A", "B", "C", "D", "E", "F">>
IsHexDigit(ch) == \E i \in 1..16 : HexDigits[i] = UpperChar(ch)
HexVal(ch) == (CHOOSE i \in 1..16 : HexDigits[i] = UpperChar(ch)) - 1

RECURSIVE HexDigitsVal(_, _)
HexDigitsVal(s, acc) ==
    IF s = <<>> THEN acc ELSE HexDigitsVal(Tail(s), 16 * acc + HexVal(Head(s)))

\* int(s, 16) for the two-character slices of a color: surrounding whitespace
\* ignored, an optional sign, then at least one hexadecimal digit of either
\* case; anything else raises ValueError (ok = FALSE)
PyIntHex(s) ==
    LET t == Strip(s)
        signed == t # <<>> /\ Head(t) \in {"+", "-"}
        ds == IF signed THEN Tail(t) ELSE t
        good == ds # <<>> /\ \A i \in 1..Len(ds) : IsHexDigit(ds[i])
    IN  IF ~good THEN [ok |-> FALSE, val |-> 0]
        ELSE [ok |-> TRUE,
              val |-> IF signed /\ Head(t) = "-" THEN 0 - HexDigitsVal(ds, 0)
                      ELSE HexDigitsVal(ds, 0)]

\* '%02X' of a byte
HexPair(n) == <<HexDigits[(n \div 16) + 1], HexDigits[(n % 16) + 1]>>

\* RGBColor(r, g, b) as str() writes it, for the three int(.., 16) results:
\* None when one of them raised ValueError or RGBColor rejects a component
\* outside 0..255
RGBColor(r, g, b) ==
    IF ~(r.ok /\ g.ok /\ b.ok) THEN None
    ELSE IF ~(r.val \in 0..255 /\ g.val \in 0..255 /\ b.val \in 0..255) THEN None
    ELSE Some(HexPair(r.val) \o HexPair(g.val) \o HexPair(b.val))

\* if len(color_hex) == 6: RGBColor of the three two-character slices
RGBColorOfHex(color_hex) ==
    IF Len(color_hex) # 6 THEN None
    ELSE RGBColor(PyIntHex(SubSeq(color_hex, 1, 2)), PyIntHex(SubSeq(color_hex, 3, 4)),
                  PyIntHex(SubSeq(color_hex, 5, 6)))

\* the color a run gets from a hex string, by the try block
\*   color_hex = font_color.lstrip('#'); if len(color_hex) == 6: ...
\* None when nothing is assigned, else Some(str(RGBColor))
RGBColorOf(font_color) == RGBColorOfHex(LStripChar(font_color, "#"))

\* the value an assignment guarded by a parse leaves: the parsed value, or the
\* old one when nothing was assigned
Assigned(parsed, old) == IF parsed # None THEN parsed ELSE old

\* the characters below chr(32) that the model uses
IsControl(ch) == ch \in {"\n", "\t", "\r", "\f"}

RECURSIVE Sanitized(_)
\* "".join(char for char in s if ord(char) >= 32 or char in "\n\t")
Sanitized(s) ==
    IF s = <<>> THEN <<>>
    ELSE IF ~IsControl(Head(s)) \/ Head(s) \in {"\n", "\t"}
    THEN <<Head(s)>> \o Sanitized(Tail(s))
    ELSE Sanitized(Tail(s))

\* a variant of sanitize_string without the test for None: str(None) is
\* sanitized
sanitize_string_str(value) ==
    IF value = None THEN <<"N", "o", "n", "e">> ELSE Sanitized(value[1])

\* sanitize_string(value) for None or a str
sanitize_string(value) == IF value = None THEN <<>> ELSE Sanitized(value[1])

\* ------------------------------------------------------------ validation
\* a variant of validate_cell_position that takes the last row and the last
\* column of the table for out of range
validate_cell_position_short(row_index, column_index, max_rows, max_columns) ==
    IF row_index < 0 THEN Some([error |-> "row_index_negative", got |-> row_index])
    ELSE IF column_index < 0
    THEN Some([error |-> "column_index_negative", got |-> column_index])
    ELSE IF row_index >= max_rows - 1
    THEN Some([error |-> "row_index_out_of_range", got |-> row_index, has |-> max_rows])
    ELSE IF column_index >= max_columns - 1
    THEN Some([error |-> "column_index_out_of_range", got |-> column_index,
               has |-> max_columns])
    ELSE None

\* validate_cell_position: None, or the error it raises
validate_cell_position(row_index, column_index, max_rows, max_columns) ==
    IF row_index < 0 THEN Some([error |-> "row_index_negative", got |-> row_index])
    ELSE IF column_index < 0
    THEN Some([error |-> "column_index_negative", got |-> column_index])
    ELSE IF row_index >= max_rows
    THEN Some([error |-> "row_index_out_of_range", got |-> row_index, has |-> max_rows])
    ELSE IF column_index >= max_columns
    THEN Some([error |-> "column_index_out_of_range", got |-> column_index,
               has |-> max_columns])
    ELSE None

\* validate_position_parameter: None, or the error it raises
validate_position_parameter(position, valid_positions) ==
    IF \E i \in 1..Len(valid_positions) : valid_positions[i] = position THEN None
    ELSE Some([error |-> "invalid_position", got |-> position])

\* ------------------------------------------------------------ cell writes
Left == <<"l", "e", "f", "t">>
Right == <<"r", "i", "g", "h", "t">>
Justify == <<"j", "u", "s", "t", "i", "f", "y">>
Top == <<"t", "o", "p">>
Middle == <<"m", "i", "d", "d", "l", "e">>
Bottom == <<"b", "o", "t", "t", "o", "m">>

\* alignment_map of set_cell_value and _apply_default_cell_formatting, looked
\* up with a lower-cased name: None when the name is not a key
HorizontalAlignmentOf(h_align) ==
    IF h_align = Left THEN Some(0)
    ELSE IF h_align = Center THEN Some(1)
    ELSE IF h_align = Right THEN Some(2)
    ELSE IF h_align = Justify THEN Some(3)
    ELSE None

\* the same map looked up with a name that extract_cell_formatting reported
AlignmentValue(name) ==
    IF name = "left" THEN Some(0)
    ELSE IF name = "center" THEN Some(1)
    ELSE IF name = "right" THEN Some(2)
    ELSE IF name = "justify" THEN Some(3)
    ELSE None

\* a variant of the vertical alignment_map keyed by the names that are stored
\* (top, center, bottom)
VerticalAlignmentOf_stored(v_align) ==
    IF v_align \in {Top, Center, Bottom} THEN Some(v_align) ELSE None

\* the vertical alignment_map of set_cell_value: None when v_align is not a key
VerticalAlignmentOf(v_align) ==
    IF v_align = Top THEN Some(Top)
    ELSE IF v_align = Middle THEN Some(Center)
    ELSE IF v_align = Bottom THEN Some(Bottom)
    ELSE None

\* cell._element.get_or_add_tcPr()
TcPrOf(cell) == IF cell.tcPr = None THEN EmptyTcPr ELSE cell.tcPr[1]

\* the characters that end an attribute value or are not allowed in one, so
\* that parse_xml raises on the shd element built around the value
XmlUnsafe(fill) == \E i \in 1..Len(fill) : fill[i] \in {"<", "&", "\"", "\f"}

\* the value of an attribute as the XML parser returns it: white space
\* characters are normalised to spaces
AttributeValue(fill) ==
    [i \in 1..Len(fill) |-> IF fill[i] \in {"\n", "\t", "\r"} THEN " " ELSE fill[i]]

\* "Apply background color" / "Restore existing background color" of
\* set_cell_value: the shd element is removed, then one built from
\* background_color.lstrip('#') is appended unless parse_xml raises
WithShading(cell, background_color) ==
    LET fill == LStripChar(background_color, "#") IN
    [cell EXCEPT !.tcPr = Some([TcPrOf(cell) EXCEPT
        !.shd = IF XmlUnsafe(fill) THEN None ELSE Some(Some(AttributeValue(fill)))])]

\* "Apply vertical alignment" / "Restore existing vertical alignment" of
\* set_cell_value for the lower-cased name v_align
WithVerticalAlignment(cell, v_align) ==
    IF VerticalAlignmentOf(v_align) = None THEN cell
    ELSE [cell EXCEPT !.tcPr = Some([TcPrOf(cell) EXCEPT
             !.vAlign = Some(VerticalAlignmentOf(v_align))])]

\* "First restore existing text formatting" of set_cell_value
RestoreRun(run, existing_format) ==
    [run EXCEPT
        !.name = IF Truthy(existing_format.font_family)
                 THEN existing_format.font_family ELSE @,
        !.size = IF existing_format.font_size # None /\ existing_format.font_size[1] # 0
                 THEN existing_format.font_size ELSE @,
        !.rgb = IF TruthyText(existing_format.font_color)
                THEN Assigned(RGBColorOf(existing_format.font_color[1]), @) ELSE @,
        !.bold = Some(existing_format.is_bold),
        !.italic = Some(existing_format.is_italic),
        !.underline = Some(existing_format.is_underlined)]

\* "Then apply new text formatting" of set_cell_value, for a TextFormat; the
\* run loop of _apply_default_cell_formatting assigns the same way
FormatRun(run, text_format) ==
    [run EXCEPT
        !.name = IF Truthy(text_format.font_family) THEN text_format.font_family ELSE @,
        !.size = IF text_format.font_size # None /\ text_format.font_size[1] # 0
                 THEN text_format.font_size ELSE @,
        !.rgb = IF TruthyText(text_format.font_color)
                THEN Assigned(RGBColorOf(text_format.font_color[1]), @) ELSE @,
        !.bold = IF text_format.bold # None THEN text_format.bold ELSE @,
        !.italic = IF text_format.italic # None THEN text_format.italic ELSE @,
        !.underline = IF text_format.underline # None THEN text_format.underline ELSE @]

\* the alignment of the paragraph cell.text made: "Apply paragraph alignment"
\* of set_cell_value.  alignment is None or a dict with the optional entries
\* horizontal and vertical
ParagraphAlignment(existing_format, alignment, preserve_existing_format) ==
    IF alignment # None /\ TruthyText(alignment[1].horizontal)
    THEN HorizontalAlignmentOf(Lower(alignment[1].horizontal[1]))
    ELSE IF preserve_existing_format /\ Truthy(existing_format.horizontal_alignment)
    THEN AlignmentValue(existing_format.horizontal_alignment[1])
    ELSE None

\* a variant of WrittenRun that restores nothing
WrittenRun_unrestored(run, existing_format, text_format, preserve_existing_format) ==
    IF text_format = None THEN run ELSE FormatRun(run, text_format[1])

\* the run cell.text made, after "Apply text formatting to runs"
WrittenRun(run, existing_format, text_format, preserve_existing_format) ==
    IF text_format = None
    THEN IF preserve_existing_format THEN RestoreRun(run, existing_format) ELSE run
    ELSE IF preserve_existing_format
    THEN FormatRun(RestoreRun(run, existing_format), text_format[1])
    ELSE FormatRun(run, text_format[1])

\* the content of the run that cell.text = text makes: a tab element for a
\* tab, a break element for a newline or a carriage return, and the other
\* characters as text
RunContent(text) ==
    [i \in 1..Len(text) |-> IF text[i] = "\t" THEN "w:tab"
                            ELSE IF text[i] \in {"\n", "\r"} THEN "w:br"
                            ELSE text[i]]

\* the text that cell.text reads from such a run: a tab for a tab element and
\* a newline for a break element
RunText(content) ==
    [i \in 1..Len(content) |-> IF content[i] = "w:tab" THEN "\t"
                               ELSE IF content[i] = "w:br" THEN "\n"
                               ELSE content[i]]

\* the cell after cell.text = sanitize_string(value) and the formatting of its
\* paragraph and run
WrittenCell(cell, existing_format, value, text_format, alignment, preserve_existing_format) ==
    [cell EXCEPT !.paragraphs =
        <<[alignment |-> ParagraphAlignment(existing_format, alignment,
                                            preserve_existing_format),
           runs |-> <<WrittenRun(PlainRun(RunText(RunContent(sanitize_string(value)))),
                                 existing_format, text_format,
                                 preserve_existing_format)>>]>>]

\* the cell after "Apply vertical alignment if provided" and its elif
VerticallyAligned(cell, existing_format, alignment, preserve_existing_format) ==
    IF alignment # None /\ TruthyText(alignment[1].vertical)
    THEN WithVerticalAlignment(cell, Lower(alignment[1].vertical[1]))
    ELSE IF preserve_existing_format /\ TruthyText(existing_format.vertical_alignment)
    THEN WithVerticalAlignment(cell, Lower(existing_format.vertical_alignment[1]))
    ELSE cell

\* the cell after "Apply background color if provided" and its elif
Shaded(cell, existing_format, background_color, preserve_existing_format) ==
    IF TruthyText(background_color) THEN WithShading(cell, background_color[1])
    ELSE IF preserve_existing_format /\ TruthyText(existing_format.background_color)
    THEN WithShading(cell, existing_format.background_color[1])
    ELSE cell

\* the cell after the body of set_cell_value (from "existing_format = None" to
\* the background color); existing_format is read only when
\* preserve_existing_format is set
SetCellValue(cell, value, text_format, alignment, background_color, preserve_existing_format) ==
    Shaded(VerticallyAligned(WrittenCell(cell, extract_cell_formatting(cell), value,
                                         text_format, alignment,
                                         preserve_existing_format),
                             extract_cell_formatting(cell), alignment,
                             preserve_existing_format),
           extract_cell_formatting(cell), background_color, preserve_existing_format)

\* the applied_formatting entry of the response of set_cell_value
AppliedFormatting(final_format) ==
    [text_format |-> [font_family |-> final_format.font_family,
                      font_size |-> final_format.font_size,
                      font_color |-> final_format.font_color,
                      bold |-> final_format.is_bold,
                      italic |-> final_format.is_italic,
                      underlined |-> final_format.is_underlined],
     alignment |-> [horizontal |-> final_format.horizontal_alignment,
                    vertical |-> final_format.vertical_alignment],
     background_color |-> final_format.background_color]

\* _extract_border_data: style, width and color of each side (the keys
\* <side>_style, <side>_width and <side>_color), None for a side without border
extract_border_data(borders_dict) ==
    [side \in {"top", "bottom", "left", "right"} |->
        IF borders_dict[side] # None
        THEN [style |-> borders_dict[side][1].style,
              width |-> borders_dict[side][1].width,
              color |-> borders_dict[side][1].color]
        ELSE [style |-> None, width |-> None, color |-> None]]

\* the data of the response of get_cell_value for a cell at a valid position
CellValueData(cell, row_index, column_index, include_formatting) ==
    LET value == CellText(cell)
        cell_format == extract_cell_formatting(cell)
        merge_info == analyze_cell_merge(cell, row_index, column_index)
    IN  [value |-> value,
         is_empty |-> Strip(value) = <<>>,
         formatting |->
            IF ~include_formatting THEN None
            ELSE Some([text_format |-> [font_family |-> cell_format.font_family,
                                        font_size |-> cell_format.font_size,
                                        font_color |-> cell_format.font_color,
                                        bold |-> cell_format.is_bold,
                                        italic |-> cell_format.is_italic,
                                        underlined |-> cell_format.is_underlined,
                                        strikethrough |-> cell_format.is_strikethrough],
                       alignment |-> [horizontal |-> cell_format.horizontal_alignment,
                                      vertical |-> cell_format.vertical_alignment],
                       background_color |-> cell_format.background_color,
                       borders |-> extract_border_data(cell_format.borders)]),
         merge_info |-> IF include_formatting /\ merge_info # None
                        THEN Some(MergeDict(merge_info[1])) ELSE None]

\* ------------------------------------------------------------ row styling
\* the run _copy_cell_style adds to the target paragraph for a source run
CopiedRun(source_run) ==
    [text |-> <<>>,
     name |-> IF Truthy(source_run.name) THEN source_run.name ELSE None,
     size |-> IF source_run.size # None /\ source_run.size[1] # 0
              THEN source_run.size ELSE None,
     rgb |-> source_run.rgb,
     bold |-> source_run.bold,
     italic |-> source_run.italic,
     underline |-> source_run.underline,
     strike |-> None]

\* _copy_cell_style(target_cell, source_cell): the target cell afterwards
copy_cell_style(target_cell, source_cell) ==
    LET n == IF Len(target_cell.paragraphs) < Len(source_cell.paragraphs)
             THEN Len(target_cell.paragraphs) ELSE Len(source_cell.paragraphs)
        paragraphs ==
            [i \in 1..Len(target_cell.paragraphs) |->
                IF i > n THEN target_cell.paragraphs[i]
                ELSE [alignment |-> source_cell.paragraphs[i].alignment,
                      runs |-> IF source_cell.paragraphs[i].runs # <<>>
                               THEN [k \in 1..Len(source_cell.paragraphs[i].runs) |->
                                        CopiedRun(source_cell.paragraphs[i].runs[k])]
                               ELSE target_cell.paragraphs[i].runs]]
        source == TcPrOf(source_cell)
        target == TcPrOf(target_cell)
        shd == IF source.shd = None THEN target.shd
               ELSE IF TruthyText(source.shd[1]) THEN Some(source.shd[1])
               ELSE IF target.shd = None THEN Some(None)
               ELSE target.shd
        \* set(qn('w:val'), None) raises TypeError after the element was added
        vAlign == IF source.vAlign = None THEN target.vAlign
                  ELSE IF source.vAlign[1] # None THEN Some(source.vAlign[1])
                  ELSE IF target.vAlign = None THEN Some(None)
                  ELSE target.vAlign
        tcBorders == IF source.tcBorders = None THEN target.tcBorders
                     ELSE source.tcBorders
        touched == source.shd # None \/ source.vAlign # None \/ source.tcBorders # None
    IN  [target_cell EXCEPT
            !.paragraphs = paragraphs,
            !.tcPr = IF ~touched THEN @
                     ELSE Some([target EXCEPT !.shd = shd, !.vAlign = vAlign,
                                              !.tcBorders = tcBorders])]

\* the paragraph after the "Apply text formatting" loop of
\* _apply_default_cell_formatting
FormatParagraph(paragraph, text_format) ==
    LET runs == IF paragraph.runs = <<>> THEN <<PlainRun(<<>>)>> ELSE paragraph.runs
    IN  [paragraph EXCEPT !.runs = [k \in 1..Len(runs) |-> FormatRun(runs[k], text_format)]]

\* "Apply text formatting" of _apply_default_cell_formatting
DefaultTextFormatted(cell, text_format) ==
    IF text_format = None THEN cell
    ELSE [cell EXCEPT !.paragraphs =
             [i \in 1..Len(cell.paragraphs) |->
                 FormatParagraph(cell.paragraphs[i], text_format[1])]]

\* a field of a CellAlignment holds [enum, value]: a member of the alignment
\* Enum (enum = TRUE; it has no lower()) or a str.  The field is truthy:
FieldGiven(field) == field # None /\ (field[1].enum \/ field[1].value # <<>>)

\* alignment.horizontal.lower() raises AttributeError in the paragraph loop,
\* which ends _apply_default_cell_formatting
HorizontalRaises(cell, alignment) ==
    /\ alignment # None /\ FieldGiven(alignment[1].horizontal)
    /\ alignment[1].horizontal[1].enum
    /\ cell.paragraphs # <<>>

\* the paragraph loop of "Apply alignment", when it does not raise
DefaultHorizontallyAligned(cell, alignment) ==
    IF alignment # None /\ FieldGiven(alignment[1].horizontal)
       /\ HorizontalAlignmentOf(Lower(alignment[1].horizontal[1].value)) # None
    THEN [cell EXCEPT !.paragraphs =
             [i \in 1..Len(cell.paragraphs) |->
                 [cell.paragraphs[i] EXCEPT !.alignment =
                     HorizontalAlignmentOf(Lower(alignment[1].horizontal[1].value))]]]
    ELSE cell

\* v_align of "Apply vertical alignment": lower-cased, middle written as center
DefaultVAlign(vertical) == IF Lower(vertical) = Middle THEN Center ELSE Lower(vertical)

\* "Apply vertical alignment": lower() of an Enum member raises inside the try
\* block and nothing is written; a str is written whatever it is
DefaultVerticallyAligned(cell, alignment) ==
    IF alignment # None /\ FieldGiven(alignment[1].vertical)
       /\ ~alignment[1].vertical[1].enum
    THEN [cell EXCEPT !.tcPr = Some([TcPrOf(cell) EXCEPT
             !.vAlign = Some(Some(DefaultVAlign(alignment[1].vertical[1].value)))])]
    ELSE cell

\* "Apply background color" of _apply_default_cell_formatting
DefaultShaded(cell, background_color) ==
    IF TruthyText(background_color)
       /\ Len(LStripChar(background_color[1], "#")) = 6
    THEN [cell EXCEPT !.tcPr = Some([TcPrOf(cell) EXCEPT
             !.shd = Some(Some(Upper(LStripChar(background_color[1], "#"))))])]
    ELSE cell

\* _apply_default_cell_formatting(cell, text_format, alignment,
\* background_color): the cell afterwards
apply_default_cell_formatting(cell, text_format, alignment, background_color) ==
    IF HorizontalRaises(cell, alignment) THEN DefaultTextFormatted(cell, text_format)
    ELSE DefaultShaded(
            DefaultVerticallyAligned(
                DefaultHorizontallyAligned(DefaultTextFormatted(cell, text_format),
                                           alignment),
                alignment),
            background_color)

\* the cell of a new row after the copy of the reference cell's style
Copied(reference_cell) ==
    IF reference_cell # None THEN copy_cell_style(FreshCell, reference_cell[1])
    ELSE FreshCell

\* the cell of a new row after _apply_row_styling: reference_cell is None or
\* the cell of the reference row in the new cell's column
StyledCell(reference_cell, default_text_format, default_alignment, default_background_color) ==
    IF default_text_format # None \/ default_alignment # None
       \/ TruthyText(default_background_color)
    THEN apply_default_cell_formatting(Copied(reference_cell), default_text_format,
                                       default_alignment, default_background_color)
    ELSE Copied(reference_cell)

\* a variant of ReferenceRow that takes, for "at_index", the row at the index
ReferenceRow_at(table, position, row_index, copy_style_from_row) ==
    IF copy_style_from_row # None THEN Some(table.rows[copy_style_from_row[1] + 1])
    ELSE IF Len(table.rows) = 0 THEN None
    ELSE IF position = "end" THEN Some(table.rows[Len(table.rows)])
    ELSE IF position = "beginning" THEN Some(table.rows[1])
    ELSE Some(table.rows[row_index[1] + 1])

\* "Determine reference row for style copying" of add_table_rows, once the
\* arguments are validated: None or the row
ReferenceRow(table, position, row_index, copy_style_from_row) ==
    IF copy_style_from_row # None THEN Some(table.rows[copy_style_from_row[1] + 1])
    ELSE IF Len(table.rows) = 0 THEN None
    ELSE IF position = "end" THEN Some(table.rows[Len(table.rows)])
    ELSE IF position = "beginning" THEN Some(table.rows[1])
    ELSE IF row_index[1] > 0 THEN Some(table.rows[row_index[1]])
    ELSE IF row_index[1] < Len(table.rows) THEN Some(table.rows[row_index[1] + 1])
    ELSE None

\* a variant of RowsAdded that leaves every new row where add_row() put it
RowsAdded_appended(table, count, position, row_index, reference_row, default_text_format, default_alignment, default_background_color) ==
    table.rows \o [i \in 1..count |-> [c \in 1..table.columns |-> FreshCell]]

\* the rows of the table after the "Add rows" loop and _apply_row_styling
RowsAdded(table, count, position, row_index, reference_row, default_text_format, default_alignment, default_background_color) ==
    LET at == IF position = "end" THEN Len(table.rows)
              ELSE IF position = "beginning" THEN 0
              ELSE row_index[1]
        new_row == [c \in 1..table.columns |->
                       StyledCell(IF reference_row # None /\ c <= Len(reference_row[1])
                                  THEN Some(reference_row[1][c]) ELSE None,
                                  default_text_format, default_alignment,
                                  default_background_color)]
    IN  SubSeq(table.rows, 1, at) \o [i \in 1..count |-> new_row]
            \o SubSeq(table.rows, at + 1, Len(table.rows))

\* a variant of RowsDeleted that takes the indices listed as row numbers
\* counted from 1
RowsDeleted_from_one(rows, row_indices) ==
    LET kept == SelectSeq([i \in 1..Len(rows) |-> i],
                          LAMBDA i : \A k \in 1..Len(row_indices) : row_indices[k] # i)
    IN  [n \in 1..Len(kept) |-> rows[kept[n]]]

\* the rows left when the rows at the indices listed are removed
RowsDeleted(rows, row_indices) ==
    LET listed == {row_indices[i] : i \in 1..Len(row_indices)}
        F[i \in 0..Len(rows)] ==
            IF i = 0 THEN <<>>
            ELSE IF (i - 1) \in listed THEN F[i - 1]
            ELSE Append(F[i - 1], rows[i])
    IN  F[Len(rows)]

\* document.add_table(rows, cols) with the headers written by cell.text
NewTable(rows, cols, headers) ==
    [columns |-> cols,
     style |-> Some("Normal Table"),
     rows |-> [r \in 1..rows |-> [c \in 1..cols |->
                 IF r = 1 /\ headers # None /\ headers[1] # <<>>
                 THEN SetCellText(FreshCell, sanitize_string(Some(headers[1][c])))
                 ELSE FreshCell]]]

RECURSIVE SumCells(_)
SumCells(tables) ==
    IF tables = <<>> THEN 0
    ELSE Len(Head(tables).rows) * Head(tables).columns + SumCells(Tail(tables))

\* ------------------------------------------------------------ table operations
\* create_table(file_path, rows, cols, position, paragraph_index, headers)
create_table(rows, cols, position, paragraph_index, headers) ==
    LET op == [name |-> "create_table", rows |-> rows, cols |-> cols,
               position |-> position, paragraph_index |-> paragraph_index,
               headers |-> headers]
        bad_position == validate_position_parameter(
                            position, <<"end", "beginning", "after_paragraph">>)
        has_headers == headers # None /\ headers[1] # <<>>
        added == [document EXCEPT !.tables = Append(@, NewTable(rows, cols, headers))]
        out ==
            IF rows <= 0 \/ cols <= 0
            THEN [document |-> document,
                  response |-> Error(op, [error |-> "rows_and_columns_must_be_positive"])]
            ELSE IF bad_position # None
            THEN [document |-> document, response |-> Error(op, bad_position[1])]
            ELSE IF position = "after_paragraph" /\ paragraph_index = None
            THEN [document |-> document,
                  response |-> Error(op, [error |-> "paragraph_index_required"])]
            ELSE IF has_headers /\ Len(headers[1]) # cols
            THEN [document |-> document,
                  response |-> Error(op, [error |-> "headers_length", got |-> Len(headers[1]),
                                          columns |-> cols])]
            ELSE IF position = "beginning" /\ document.paragraphs > 0
            \* insert_paragraph_before() adds a paragraph; a Paragraph has no
            \* add_table, and the AttributeError is caught
            THEN [document |-> [document EXCEPT !.paragraphs = @ + 1],
                  response |-> Error(op, [error |-> "failed_to_create_table"])]
            ELSE IF position = "after_paragraph"
                    /\ (paragraph_index[1] < 0 \/ paragraph_index[1] >= document.paragraphs)
            THEN [document |-> document,
                  response |-> Error(op, [error |-> "invalid_paragraph_index",
                                          got |-> paragraph_index[1]])]
            ELSE IF position = "after_paragraph"
            \* a Paragraph has no insert_paragraph_after: AttributeError, caught
            THEN [document |-> document,
                  response |-> Error(op, [error |-> "failed_to_create_table"])]
            ELSE [document |-> added,
                  response |-> Success(op, [table_index |-> Len(added.tables) - 1,
                                            rows |-> rows, cols |-> cols,
                                            position |-> position,
                                            has_headers |-> has_headers])]
    IN  /\ document' = out.document
        /\ response' = out.response

\* add_table_rows(file_path, table_index, count, position, row_index,
\*                copy_style_from_row, default_text_format, default_alignment,
\*                default_background_color)
add_table_rows(table_index, count, position, row_index, copy_style_from_row, default_text_format, default_alignment, default_background_color) ==
    LET op == [name |-> "add_table_rows", table_index |-> table_index,
               count |-> count, position |-> position, row_index |-> row_index,
               copy_style_from_row |-> copy_style_from_row,
               defaults |-> [text_format |-> default_text_format,
                             alignment |-> default_alignment,
                             background_color |-> default_background_color]]
        bad_position == validate_position_parameter(
                            position, <<"end", "beginning", "at_index">>)
        bad_table == validate_table_index(table_index, Len(document.tables))
        table == document.tables[table_index + 1]
        bad_row == validate_cell_position(row_index[1], 0, Len(table.rows), table.columns)
        rows == RowsAdded(table, count, position, row_index,
                          ReferenceRow(table, position, row_index, copy_style_from_row),
                          default_text_format, default_alignment,
                          default_background_color)
        out ==
            IF count <= 0
            THEN [document |-> document,
                  response |-> Error(op, [error |-> "count_must_be_positive"])]
            ELSE IF bad_position # None
            THEN [document |-> document, response |-> Error(op, bad_position[1])]
            ELSE IF bad_table # None
            THEN [document |-> document, response |-> Error(op, bad_table[1])]
            ELSE IF position = "at_index" /\ row_index = None
            THEN [document |-> document,
                  response |-> Error(op, [error |-> "row_index_required"])]
            ELSE IF position = "at_index" /\ bad_row # None
            THEN [document |-> document, response |-> Error(op, bad_row[1])]
            ELSE IF copy_style_from_row # None
                    /\ (copy_style_from_row[1] < 0
                        \/ copy_style_from_row[1] >= Len(table.rows))
            THEN [document |-> document,
                  response |-> Error(op, [error |-> "invalid_copy_style_from_row",
                                          got |-> copy_style_from_row[1]])]
            ELSE [document |-> [document EXCEPT !.tables[table_index + 1].rows = rows],
                  response |-> Success(op, [rows_added |-> count,
                                            new_row_count |-> Len(rows),
                                            position |-> position])]
    IN  /\ document' = out.document
        /\ response' = out.response

\* delete_table_rows(file_path, table_index, row_indices)
delete_table_rows(table_index, row_indices) ==
    LET op == [name |-> "delete_table_rows", table_index |-> table_index,
               row_indices |-> row_indices]
        bad_table == validate_table_index(table_index, Len(document.tables))
        table == document.tables[table_index + 1]
        bad(i) == validate_cell_position(row_indices[i], 0, Len(table.rows), table.columns)
        failing == {i \in 1..Len(row_indices) : bad(i) # None}
        first == CHOOSE i \in failing : \A j \in failing : i <= j
        rows == RowsDeleted(table.rows, row_indices)
    IN  /\ response' =
             IF row_indices = <<>> THEN Error(op, [error |-> "no_row_indices"])
             ELSE IF bad_table # None THEN Error(op, bad_table[1])
             ELSE IF failing # {} THEN Error(op, bad(first)[1])
             ELSE Success(op, [rows_deleted |-> Len(table.rows) - Len(rows),
                               remaining_rows |-> Len(rows)])
        /\ document' =
             IF row_indices = <<>> \/ bad_table # None \/ failing # {} THEN document
             ELSE [document EXCEPT !.tables[table_index + 1].rows = rows]

\* set_cell_value(file_path, table_index, row_index, column_index, value,
\*                text_format, alignment, background_color,
\*                preserve_existing_format)
set_cell_value(table_index, row_index, column_index, value, text_format, alignment, background_color, preserve_existing_format) ==
    LET op == [name |-> "set_cell_value", table_index |-> table_index,
               row_index |-> row_index, column_index |-> column_index,
               value |-> value, text_format |-> text_format,
               alignment |-> alignment, background_color |-> background_color,
               preserve_existing_format |-> preserve_existing_format]
        bad_table == validate_table_index(table_index, Len(document.tables))
        table == document.tables[table_index + 1]
        bad_cell == validate_cell_position(row_index, column_index,
                                           Len(table.rows), table.columns)
        cell == SetCellValue(table.rows[row_index + 1][column_index + 1], value,
                             text_format, alignment, background_color,
                             preserve_existing_format)
    IN  /\ response' =
             IF bad_table # None THEN Error(op, bad_table[1])
             ELSE IF bad_cell # None THEN Error(op, bad_cell[1])
             ELSE Success(op, [value |-> CellText(cell),
                               applied_formatting |->
                                   AppliedFormatting(extract_cell_formatting(cell))])
        /\ document' =
             IF bad_table # None \/ bad_cell # None THEN document
             ELSE [document EXCEPT
                      !.tables[table_index + 1].rows[row_index + 1][column_index + 1] = cell]

\* get_cell_value(file_path, table_index, row_index, column_index,
\*                include_formatting)
get_cell_value(table_index, row_index, column_index, include_formatting) ==
    LET op == [name |-> "get_cell_value", table_index |-> table_index,
               row_index |-> row_index, column_index |-> column_index,
               include_formatting |-> include_formatting]
        bad_table == validate_table_index(table_index, Len(document.tables))
        table == document.tables[table_index + 1]
        bad_cell == validate_cell_position(row_index, column_index,
                                           Len(table.rows), table.columns)
    IN  /\ response' =
             IF bad_table # None THEN Error(op, bad_table[1])
             ELSE IF bad_cell # None THEN Error(op, bad_cell[1])
             ELSE Success(op, CellValueData(table.rows[row_index + 1][column_index + 1],
                                            row_index, column_index, include_formatting))
        /\ UNCHANGED document

\* a variant of delete_table that removes the last table of the document
delete_table_last(table_index) ==
    LET op == [name |-> "delete_table", table_index |-> table_index]
        bad_table == validate_table_index(table_index, Len(document.tables))
    IN  /\ response' = IF bad_table # None THEN Error(op, bad_table[1])
                       ELSE Success(op, None)
        /\ document' =
             IF bad_table # None THEN document
             ELSE [document EXCEPT !.tables = SubSeq(@, 1, Len(@) - 1)]

\* delete_table(file_path, table_index)
delete_table(table_index) ==
    LET op == [name |-> "delete_table", table_index |-> table_index]
        bad_table == validate_table_index(table_index, Len(document.tables))
    IN  /\ response' = IF bad_table # None THEN Error(op, bad_table[1])
                       ELSE Success(op, None)
        /\ document' =
             IF bad_table # None THEN document
             ELSE [document EXCEPT !.tables =
                      SubSeq(@, 1, table_index) \o SubSeq(@, table_index + 2, Len(@))]

\* add_table_columns(file_path, table_index, count, position, column_index).
\* The elements it adds to each row are made by calling the class of the cell
\* element, which gives an element named after the class and not a w:tc: no row
\* gains a cell and the grid (table.columns) is not touched, so the rows and
\* columns of the table are what they were and new_column_count is the old
\* column count.
add_table_columns(table_index, count, position, column_index) ==
    LET op == [name |-> "add_table_columns", table_index |-> table_index,
               count |-> count, position |-> position, column_index |-> column_index]
        bad_position == validate_position_parameter(
                            position, <<"end", "beginning", "at_index">>)
        bad_table == validate_table_index(table_index, Len(document.tables))
        table == document.tables[table_index + 1]
        bad_column == validate_cell_position(0, column_index[1], Len(table.rows),
                                             table.columns)
    IN  /\ response' =
             IF count <= 0 THEN Error(op, [error |-> "count_must_be_positive"])
             ELSE IF bad_position # None THEN Error(op, bad_position[1])
             ELSE IF bad_table # None THEN Error(op, bad_table[1])
             ELSE IF table.rows = <<>> THEN Error(op, [error |-> "empty_table"])
             ELSE IF position = "at_index" /\ column_index = None
             THEN Error(op, [error |-> "column_index_required"])
             ELSE IF position = "at_index" /\ bad_column # None
             THEN Error(op, bad_column[1])
             ELSE Success(op, [table_index |-> table_index, columns_added |-> count,
                               new_column_count |-> table.columns,
                               position |-> position])
        /\ UNCHANGED document

\* str(i) for 0 <= i <= 9
Str(i) == <<Digits[i + 1]>>

\* "Column_" + str(i)
ColumnKey(i) == <<"C", "o", "l", "u", "m", "n", "_">> \o Str(i)

\* [cell.text for cell in row.cells]
RowTexts(row) == [c \in 1..Len(row) |-> CellText(row[c])]

\* row_dict of get_table_data for a row of texts: the keys are the headers (or
\* Column_i without headers) and a key that occurs twice keeps the last value
RowDict(row, headers) ==
    LET key(i) == IF headers # None
                  THEN (IF i <= Len(headers[1]) THEN headers[1][i] ELSE ColumnKey(i - 1))
                  ELSE ColumnKey(i - 1)
        last(k) == CHOOSE i \in 1..Len(row) :
                       key(i) = k /\ \A j \in 1..Len(row) : key(j) = k => j <= i
    IN  [k \in {key(i) : i \in 1..Len(row)} |-> row[last(k)]]

\* response_data of get_table_data for a table with rows
TableData(table, table_index, include_headers, format_type) ==
    LET headers == IF include_headers THEN Some(RowTexts(table.rows[1])) ELSE None
        start_row == IF include_headers THEN 1 ELSE 0
        data == [r \in 1..Len(table.rows) - start_row |->
                    RowTexts(table.rows[r + start_row])]
        truthy == headers # None /\ headers[1] # <<>>
        result_data ==
            IF format_type = "object"
            THEN [r \in 1..Len(data) |-> RowDict(data[r], IF truthy THEN headers ELSE None)]
            ELSE IF include_headers /\ truthy THEN <<headers[1]>> \o data
            ELSE data
    IN  [table_index |-> table_index, format |-> format_type, rows |-> Len(data),
         columns |-> IF data # <<>> THEN Len(data[1]) ELSE 0,
         has_headers |-> truthy, headers |-> headers, data |-> result_data]

\* get_table_data(file_path, table_index, include_headers, format_type)
get_table_data(table_index, include_headers, format_type) ==
    LET op == [name |-> "get_table_data", table_index |-> table_index,
               include_headers |-> include_headers, format_type |-> format_type]
        bad_table == validate_table_index(table_index, Len(document.tables))
        table == document.tables[table_index + 1]
    IN  /\ response' =
             IF format_type \notin {"array", "object", "csv"}
             THEN Error(op, [error |-> "invalid_format"])
             ELSE IF bad_table # None THEN Error(op, bad_table[1])
             ELSE IF table.rows = <<>> THEN Success(op, [data |-> <<>>])
             ELSE Success(op, TableData(table, table_index, include_headers, format_type))
        /\ UNCHANGED document

\* ------------------------------------------------------------ search
\* text[pos : pos + n] for 0 <= pos (a Python slice: cut at the end of text)
Slice(text, pos, n) ==
    SubSeq(text, pos + 1, IF pos + n <= Len(text) THEN pos + n ELSE Len(text))

\* text.find(sub, start): the first position >= start at which sub occurs, -1
\* when there is none
Find(text, sub, start) ==
    LET at == {p \in start..Len(text) - Len(sub) : Slice(text, p, Len(sub)) = sub}
    IN  IF at = {} THEN -1 ELSE CHOOSE p \in at : \A q \in at : p <= q

\* the while loop of the "contains" mode: an occurrence is recorded at pos and
\* the next search starts at pos + 1
RECURSIVE ContainsMatches(_, _, _, _)
ContainsMatches(cell_text, search_text, query_text, start) ==
    LET pos == Find(search_text, query_text, start)
    IN  IF pos = -1 THEN <<>>
        ELSE <<[text |-> Slice(cell_text, pos, Len(query_text)),
                start |-> pos, end |-> pos + Len(query_text)]>>
             \o ContainsMatches(cell_text, search_text, query_text, pos + 1)

\* the characters with a meaning of their own in a regular expression
RegexSpecial == {".", "^", "$", "*", "+", "?", "{", "}", "[", "]", "\\", "|", "(", ")"}

\* a query that, as a regular expression, matches only its own text
IsLiteralPattern(query) == \A i \in 1..Len(query) : query[i] \notin RegexSpecial

\* pattern.finditer(cell_text) for a literal pattern: occurrences from left to
\* right, the next search starting where the last match ended
RECURSIVE FindIter(_, _, _, _)
FindIter(cell_text, search_text, query_text, start) ==
    LET pos == Find(search_text, query_text, start)
    IN  IF pos = -1 THEN <<>>
        ELSE <<[text |-> Slice(cell_text, pos, Len(query_text)),
                start |-> pos, end |-> pos + Len(query_text)]>>
             \o FindIter(cell_text, search_text, query_text, pos + Len(query_text))

\* _search_cell_content(cell_text, query, search_mode, case_sensitive, pattern),
\* in regex mode for a literal pattern
search_cell_content(cell_text, query, search_mode, case_sensitive) ==
    LET search_text == IF case_sensitive THEN cell_text ELSE Lower(cell_text)
        query_text == IF case_sensitive THEN query ELSE Lower(query)
    IN  IF cell_text = <<>> THEN <<>>
        ELSE IF search_mode = "exact"
        THEN (IF search_text = query_text
              THEN <<[text |-> cell_text, start |-> 0, end |-> Len(cell_text)]>>
              ELSE <<>>)
        ELSE IF search_mode = "contains"
        THEN ContainsMatches(cell_text, search_text, query_text, 0)
        ELSE FindIter(cell_text, search_text, query_text, 0)

\* `max_results and len(matches) >= max_results`
Limited(matches, max_results) ==
    max_results # None /\ max_results[1] # 0 /\ Len(matches) >= max_results[1]

\* "Create match objects": the matches of one cell are appended until the
\* limit test breaks the loop
RECURSIVE AppendMatches(_, _, _, _, _, _, _)
AppendMatches(matches, cell_matches, table_idx, row_idx, col_idx, cell_text, max_results) ==
    IF cell_matches = <<>> \/ Limited(matches, max_results) THEN matches
    ELSE AppendMatches(
             Append(matches, [table_index |-> table_idx, row_index |-> row_idx,
                              column_index |-> col_idx, cell_value |-> cell_text,
                              match_text |-> Head(cell_matches).text,
                              match_start |-> Head(cell_matches).start,
                              match_end |-> Head(cell_matches).end]),
             Tail(cell_matches), table_idx, row_idx, col_idx, cell_text, max_results)

\* the loop over the cells of a row from column col_idx on; found holds the
\* matches and the number of cells searched so far
RECURSIVE SearchRow(_, _, _, _, _, _)
SearchRow(found, row, table_idx, row_idx, col_idx, call) ==
    IF col_idx >= Len(row) THEN found
    ELSE LET cell_text == CellText(row[col_idx + 1])
             matches == AppendMatches(found.matches,
                            search_cell_content(cell_text, call.query, call.search_mode,
                                                call.case_sensitive),
                            table_idx, row_idx, col_idx, cell_text, call.max_results)
             next == [matches |-> matches, searched |-> found.searched + 1]
         IN  IF Limited(matches, call.max_results) THEN next
             ELSE SearchRow(next, row, table_idx, row_idx, col_idx + 1, call)

\* the loop over the rows of a table from row row_idx on
RECURSIVE SearchRows(_, _, _, _, _)
SearchRows(found, rows, table_idx, row_idx, call) ==
    IF row_idx >= Len(rows) THEN found
    ELSE IF Limited(SearchRow(found, rows[row_idx + 1], table_idx, row_idx, 0, call).matches,
                    call.max_results)
    THEN SearchRow(found, rows[row_idx + 1], table_idx, row_idx, 0, call)
    ELSE SearchRows(SearchRow(found, rows[row_idx + 1], table_idx, row_idx, 0, call),
                    rows, table_idx, row_idx + 1, call)

\* the summary after a table was searched: found before, next after
Summarised(found, next, table_idx) ==
    LET table_matches == Len(next.matches) - Len(found.matches)
    IN  IF table_matches > 0
        THEN [next EXCEPT !.tables_with_matches = @ + 1,
                          !.matches_per_table =
                              [t \in DOMAIN @ \cup {table_idx} |->
                                  IF t = table_idx THEN table_matches ELSE @[t]]]
        ELSE next

\* "Search each table": the loop over tables_to_search
RECURSIVE SearchTables(_, _, _, _)
SearchTables(found, tables, tables_to_search, call) ==
    IF tables_to_search = <<>> THEN found
    ELSE SearchTables(
             Summarised(found,
                        [found EXCEPT
                            !.matches = SearchRows([matches |-> found.matches,
                                                    searched |-> found.searched],
                                                   tables[Head(tables_to_search) + 1].rows,
                                                   Head(tables_to_search), 0, call).matches,
                            !.searched = SearchRows([matches |-> found.matches,
                                                     searched |-> found.searched],
                                                    tables[Head(tables_to_search) + 1].rows,
                                                    Head(tables_to_search), 0, call).searched],
                        Head(tables_to_search)),
             tables, Tail(tables_to_search), call)

\* TableSearchResult.to_dict for what the loops found
SearchResult(found, tables_to_search, call) ==
    [query |-> call.query, search_mode |-> call.search_mode,
     case_sensitive |-> call.case_sensitive, matches |-> found.matches,
     total_matches |-> Len(found.matches), tables_searched |-> tables_to_search,
     summary |-> [tables_with_matches |-> found.tables_with_matches,
                  matches_per_table |-> found.matches_per_table,
                  total_cells_searched |-> found.searched]]

\* the first table index of the list that validate_table_index refuses
FirstRefused(table_indices, max_tables) ==
    LET failing == {i \in 1..Len(table_indices) :
                        validate_table_index(table_indices[i], max_tables) # None}
    IN  IF failing = {} THEN None
        ELSE validate_table_index(
                 table_indices[CHOOSE i \in failing : \A j \in failing : i <= j],
                 max_tables)

\* search_table_content(file_path, query, search_mode, case_sensitive,
\*                      table_indices, max_results), for a query that in regex
\* mode is a literal pattern or the single character "(", which does not
\* compile
search_table_content(query, search_mode, case_sensitive, table_indices, max_results) ==
    LET call == [name |-> "search_table_content", query |-> query,
                 search_mode |-> search_mode, case_sensitive |-> case_sensitive,
                 table_indices |-> table_indices, max_results |-> max_results]
        refused == IF table_indices = None THEN None
                   ELSE FirstRefused(table_indices[1], Len(document.tables))
        tables_to_search ==
            IF table_indices = None THEN [i \in 1..Len(document.tables) |-> i - 1]
            ELSE table_indices[1]
        start == [matches |-> <<>>, searched |-> 0, tables_with_matches |-> 0,
                  matches_per_table |-> <<>>]
    IN  /\ response' =
             IF Strip(query) = <<>> THEN Error(call, [error |-> "empty_query"])
             ELSE IF search_mode \notin {"exact", "contains", "regex"}
             THEN Error(call, [error |-> "invalid_search_mode"])
             ELSE IF refused # None THEN Error(call, refused[1])
             ELSE IF search_mode = "regex" /\ ~IsLiteralPattern(query)
             THEN Error(call, [error |-> "invalid_regex_pattern"])
             ELSE Success(call, SearchResult(
                      SearchTables(start, document.tables, tables_to_search, call),
                      tables_to_search, call))
        /\ UNCHANGED document

\* ------------------------------------------------------------ cell formatting
\* The formatting operations take the document from get_document, which
\* returns None for a path that is not loaded: in the specification of these
\* operations the variable document is None then.

\* validate_color(color)
validate_color(color) ==
    Len(LStripChar(color, "#")) = 6 /\ PyIntHex(LStripChar(color, "#")).ok

\* whether _apply_text_formatting raises: validate_color accepts the color
\* and hex_to_rgb or RGBColor refuses one of its three slices
TextFormattingRaises(text_format) ==
    /\ TruthyText(text_format.font_color)
    /\ validate_color(LStripChar(text_format.font_color[1], "#"))
    /\ RGBColorOfHex(LStripChar(text_format.font_color[1], "#")) = None

\* _apply_text_formatting(run, text_format): the run afterwards; when the
\* color raises, the font name and size are already assigned
apply_text_formatting(run, text_format) ==
    LET sized == [run EXCEPT
                     !.name = IF Truthy(text_format.font_family)
                              THEN text_format.font_family ELSE @,
                     !.size = IF text_format.font_size # None /\ text_format.font_size[1] # 0
                              THEN text_format.font_size ELSE @]
    IN  IF TextFormattingRaises(text_format) THEN sized
        ELSE [sized EXCEPT
                 !.rgb = IF TruthyText(text_format.font_color)
                            /\ validate_color(LStripChar(text_format.font_color[1], "#"))
                         THEN RGBColorOfHex(LStripChar(text_format.font_color[1], "#"))
                         ELSE @,
                 !.bold = IF text_format.bold # None THEN text_format.bold ELSE @,
                 !.italic = IF text_format.italic # None THEN text_format.italic ELSE @,
                 !.underline = IF text_format.underline # None THEN text_format.underline ELSE @,
                 !.strike = IF text_format.strikethrough # None
                            THEN text_format.strikethrough ELSE @]

\* the loop of format_cell_text over the paragraphs and runs of the cell: a
\* paragraph without runs gets one; when the formatting raises, the loop ends
\* in the first run it reaches
TextFormatted(cell, text_format) ==
    [cell EXCEPT !.paragraphs =
        [i \in 1..Len(@) |->
            IF TextFormattingRaises(text_format) /\ i > 1 THEN @[i]
            ELSE [@[i] EXCEPT !.runs =
                    IF @ = <<>> THEN <<apply_text_formatting(PlainRun(<<>>), text_format)>>
                    ELSE [k \in 1..Len(@) |->
                            IF TextFormattingRaises(text_format) /\ k > 1 THEN @[k]
                            ELSE apply_text_formatting(@[k], text_format)]]]]

\* the outcome of an operation on a cell: the document afterwards, the status
\* and the data or the error of the response
Outcome(doc, status, data) == [document |-> doc, status |-> status, data |-> data]

\* the checks every formatting operation starts with: None, or the error
CellRefused(doc, table_index, row_index, column_index) ==
    IF doc = None THEN Some([error |-> "document_not_loaded"])
    ELSE IF validate_table_index(table_index, Len(doc.tables)) # None
    THEN validate_table_index(table_index, Len(doc.tables))
    ELSE validate_cell_position(row_index, column_index,
                                Len(doc.tables[table_index + 1].rows),
                                doc.tables[table_index + 1].columns)

\* the document with the cell replaced
WithCell(doc, table_index, row_index, column_index, cell) ==
    [doc EXCEPT !.tables[table_index + 1].rows[row_index + 1][column_index + 1] = cell]

\* the cell of the document
CellOf(doc, table_index, row_index, column_index) ==
    doc.tables[table_index + 1].rows[row_index + 1][column_index + 1]

\* format_cell_text(file_path, table_index, row_index, column_index,
\*                  text_format) for a TextFormat
FormatCellText(doc, table_index, row_index, column_index, text_format) ==
    IF CellRefused(doc, table_index, row_index, column_index) # None
    THEN Outcome(doc, "error", CellRefused(doc, table_index, row_index, column_index)[1])
    ELSE Outcome(WithCell(doc, table_index, row_index, column_index,
                          TextFormatted(CellOf(doc, table_index, row_index, column_index),
                                        text_format)),
                 IF TextFormattingRaises(text_format) THEN "error" ELSE "success",
                 IF TextFormattingRaises(text_format)
                 THEN [error |-> "failed_to_format_cell_text"]
                 ELSE [formatting_applied |-> text_format])

\* CellAlignment.from_dict: a name that is no value of the enumeration is
\* dropped
AlignmentFromDict(alignment) ==
    [horizontal |-> IF alignment.horizontal # None
                       /\ alignment.horizontal[1] \in {Left, Center, Right, Justify}
                    THEN alignment.horizontal ELSE None,
     vertical |-> IF alignment.vertical # None
                     /\ alignment.vertical[1] \in {Top, Middle, Bottom}
                  THEN alignment.vertical ELSE None]

\* the cell after format_cell_alignment: _get_paragraph_alignment for every
\* paragraph, _set_cell_vertical_alignment for the cell
Aligned(cell, alignment) ==
    LET horizontal ==
            IF alignment.horizontal = None THEN cell
            ELSE [cell EXCEPT !.paragraphs =
                     [i \in 1..Len(@) |->
                         [@[i] EXCEPT !.alignment =
                             HorizontalAlignmentOf(alignment.horizontal[1])]]]
    IN  IF alignment.vertical = None THEN horizontal
        ELSE [horizontal EXCEPT !.tcPr = Some([TcPrOf(cell) EXCEPT
                 !.vAlign = Some(VerticalAlignmentOf(alignment.vertical[1]))])]

\* format_cell_alignment(file_path, table_index, row_index, column_index,
\*                       alignment) for a dict
FormatCellAlignment(doc, table_index, row_index, column_index, alignment) ==
    IF CellRefused(doc, table_index, row_index, column_index) # None
    THEN Outcome(doc, "error", CellRefused(doc, table_index, row_index, column_index)[1])
    ELSE Outcome(WithCell(doc, table_index, row_index, column_index,
                          Aligned(CellOf(doc, table_index, row_index, column_index),
                                  AlignmentFromDict(alignment))),
                 "success", [alignment_applied |-> AlignmentFromDict(alignment)])

\* _set_cell_background_color(cell, color)
BackgroundSet(cell, color) ==
    [cell EXCEPT !.tcPr = Some([TcPrOf(cell) EXCEPT !.shd = Some(Some(Upper(color)))])]

\* format_cell_background(file_path, table_index, row_index, column_index,
\*                        color)
FormatCellBackground(doc, table_index, row_index, column_index, color) ==
    IF CellRefused(doc, table_index, row_index, column_index) # None
    THEN Outcome(doc, "error", CellRefused(doc, table_index, row_index, column_index)[1])
    ELSE IF ~validate_color(LStripChar(color, "#"))
    THEN Outcome(doc, "error", [error |-> "invalid_color_format"])
    ELSE Outcome(WithCell(doc, table_index, row_index, column_index,
                          BackgroundSet(CellOf(doc, table_index, row_index, column_index),
                                        LStripChar(color, "#"))),
                 "success", [background_color |-> LStripChar(color, "#")])

\* style_map and width_map of _set_cell_borders for the value of a style and
\* of a width; BorderProperties.from_dict made an unknown style solid and an
\* unknown width thin
BorderStyleVal(style) ==
    IF style = "none" THEN "none"
    ELSE IF style = "dashed" THEN "dashed"
    ELSE IF style = "dotted" THEN "dotted"
    ELSE IF style = "double" THEN "double"
    ELSE "single"
BorderWidthSz(width) ==
    IF width = "medium" THEN "8" ELSE IF width = "thick" THEN "12" ELSE "4"

\* whether _set_cell_borders raises: the color of a side is not a string
BordersRaise(borders) ==
    \E side \in {"top", "bottom", "left", "right"} :
        borders[side] # None /\ borders[side][1].color = None

\* _set_cell_borders(cell, borders): the tcBorders element is removed, and a
\* new one, made by OxmlElement and so without a default namespace, is
\* appended unless a side raised
BordersSet(cell, borders) ==
    [cell EXCEPT !.tcPr = Some([TcPrOf(cell) EXCEPT !.tcBorders =
        IF BordersRaise(borders) THEN None
        ELSE Some([nsDefault |-> None,
                   sides |-> [side \in {"top", "bottom", "left", "right"} |->
                                IF borders[side] = None THEN None
                                ELSE Some([val |-> Some(BorderStyleVal(borders[side][1].style)),
                                           sz |-> Some(BorderWidthSz(borders[side][1].width)),
                                           color |-> Some(Upper(borders[side][1].color[1]))])]])])]

\* format_cell_borders(file_path, table_index, row_index, column_index,
\*                     borders) for a dict
FormatCellBorders(doc, table_index, row_index, column_index, borders) ==
    IF CellRefused(doc, table_index, row_index, column_index) # None
    THEN Outcome(doc, "error", CellRefused(doc, table_index, row_index, column_index)[1])
    ELSE Outcome(WithCell(doc, table_index, row_index, column_index,
                          BordersSet(CellOf(doc, table_index, row_index, column_index), borders)),
                 IF BordersRaise(borders) THEN "error" ELSE "success",
                 IF BordersRaise(borders) THEN [error |-> "failed_to_set_cell_borders"]
                 ELSE [borders_applied |-> borders])

\* the sections of a CellFormatting in the order format_cell_complete tests
\* them
Sections == <<"text_format", "alignment", "background_color", "borders">>

\* `if formatting.text_format:` and the like: a TextFormat, a CellAlignment
\* and a CellBorders are truthy whatever they hold, a color when it is not
\* empty
SectionGiven(formatting, section) ==
    IF section = "background_color" THEN TruthyText(formatting.background_color)
    ELSE formatting[section] # None

\* the call format_cell_complete makes for a section
SectionOutcome(doc, table_index, row_index, column_index, formatting, section) ==
    IF section = "text_format"
    THEN FormatCellText(doc, table_index, row_index, column_index, formatting.text_format[1])
    ELSE IF section = "alignment"
    THEN FormatCellAlignment(doc, table_index, row_index, column_index, formatting.alignment[1])
    ELSE IF section = "background_color"
    THEN FormatCellBackground(doc, table_index, row_index, column_index,
                              formatting.background_color[1])
    ELSE FormatCellBorders(doc, table_index, row_index, column_index, formatting.borders[1])

\* a variant of the body of format_cell_complete that takes the sections from
\* the last one to the first
RECURSIVE CompleteOutcome_reversed(_, _, _, _, _, _, _)
CompleteOutcome_reversed(doc, table_index, row_index, column_index, formatting, sections, results) ==
    IF sections = <<>>
    THEN Outcome(doc, "success", [table_index |-> table_index, row_index |-> row_index,
                                  column_index |-> column_index, applied_formats |-> results])
    ELSE IF ~SectionGiven(formatting, sections[Len(sections)])
    THEN CompleteOutcome_reversed(doc, table_index, row_index, column_index, formatting,
                                  SubSeq(sections, 1, Len(sections) - 1), results)
    ELSE IF SectionOutcome(doc, table_index, row_index, column_index, formatting,
                           sections[Len(sections)]).status # "success"
    THEN SectionOutcome(doc, table_index, row_index, column_index, formatting,
                        sections[Len(sections)])
    ELSE CompleteOutcome_reversed(
             SectionOutcome(doc, table_index, row_index, column_index, formatting,
                            sections[Len(sections)]).document,
             table_index, row_index, column_index, formatting,
             SubSeq(sections, 1, Len(sections) - 1), Append(results, sections[Len(sections)]))

\* the body of format_cell_complete from the section `sections[1]` on:
\* results holds the sections applied so far
RECURSIVE CompleteOutcome(_, _, _, _, _, _, _)
CompleteOutcome(doc, table_index, row_index, column_index, formatting, sections, results) ==
    IF sections = <<>>
    THEN Outcome(doc, "success", [table_index |-> table_index, row_index |-> row_index,
                                  column_index |-> column_index, applied_formats |-> results])
    ELSE IF ~SectionGiven(formatting, Head(sections))
    THEN CompleteOutcome(doc, table_index, row_index, column_index, formatting,
                         Tail(sections), results)
    ELSE IF SectionOutcome(doc, table_index, row_index, column_index, formatting,
                           Head(sections)).status # "success"
    THEN SectionOutcome(doc, table_index, row_index, column_index, formatting, Head(sections))
    ELSE CompleteOutcome(SectionOutcome(doc, table_index, row_index, column_index, formatting,
                                        Head(sections)).document,
                         table_index, row_index, column_index, formatting,
                         Tail(sections), Append(results, Head(sections)))

\* the response and the document after an operation with the outcome `out`
Answered(op, out) ==
    /\ response' = [op |-> op, status |-> out.status, data |-> out.data]
    /\ document' = out.document

format_cell_text(table_index, row_index, column_index, text_format) ==
    Answered([name |-> "format_cell_text", table_index |-> table_index,
              row_index |-> row_index, column_index |-> column_index,
              text_format |-> text_format],
             FormatCellText(document, table_index, row_index, column_index, text_format))

format_cell_alignment(table_index, row_index, column_index, alignment) ==
    Answered([name |-> "format_cell_alignment", table_index |-> table_index,
              row_index |-> row_index, column_index |-> column_index,
              alignment |-> alignment],
             FormatCellAlignment(document, table_index, row_index, column_index, alignment))

format_cell_background(table_index, row_index, column_index, color) ==
    Answered([name |-> "format_cell_background", table_index |-> table_index,
              row_index |-> row_index, column_index |-> column_index, color |-> color],
             FormatCellBackground(document, table_index, row_index, column_index, color))

format_cell_borders(table_index, row_index, column_index, borders) ==
    Answered([name |-> "format_cell_borders", table_index |-> table_index,
              row_index |-> row_index, column_index |-> column_index, borders |-> borders],
             FormatCellBorders(document, table_index, row_index, column_index, borders))

\* format_cell_complete(file_path, table_index, row_index, column_index,
\*                      formatting) for a dict
format_cell_complete(table_index, row_index, column_index, formatting) ==
    Answered([name |-> "format_cell_complete", table_index |-> table_index,
              row_index |-> row_index, column_index |-> column_index,
              formatting |-> formatting],
             CompleteOutcome(document, table_index, row_index, column_index, formatting,
                             Sections, <<>>))

\* ------------------------------------------------------------ calls drawn
\* the formatting arguments of set_cell_value come all together or not at all
NoFormat == [text_format |-> None, alignment |-> None, background_color |-> None]
FullFormat ==
    [text_format |-> Some([font_family |-> Some("Arial"), font_size |-> Some(12),
                           font_color |-> Some(<<"#", "f", "f", "0", "0", "0", "0">>),
                           bold |-> Some(TRUE), italic |-> Some(FALSE),
                           underline |-> Some(FALSE)]),
     alignment |-> Some([horizontal |-> Some(<<"C", "e", "n", "t", "e", "r">>),
                         vertical |-> Some(Middle)]),
     background_color |-> Some(<<"#", "F", "F", "F", "F", "0", "0">>)]

\* table indices around the number of tables; row and column indices around
\* the bounds of the table addressed
TableIndices == -1..Len(document.tables)
RowIndices(table_index) ==
    IF table_index \in 0..Len(document.tables) - 1
    THEN -1..Len(document.tables[table_index + 1].rows) ELSE {0}
ColumnIndices(table_index) ==
    IF table_index \in 0..Len(document.tables) - 1
    THEN -1..document.tables[table_index + 1].columns ELSE {0}

\* position, paragraph_index and headers of the calls of create_table; the
\* headers are one too many for any table drawn
CreateCalls ==
    {[position |-> "end", paragraph_index |-> None, headers |-> None],
     [position |-> "beginning", paragraph_index |-> None, headers |-> Some(<<>>)],
     [position |-> "end", paragraph_index |-> None,
      headers |-> Some([i \in 1..MaxCols + 1 |-> <<"a">>])],
     [position |-> "after_paragraph", paragraph_index |-> None, headers |-> None],
     [position |-> "after_paragraph", paragraph_index |-> Some(0), headers |-> None],
     [position |-> "middle", paragraph_index |-> None, headers |-> None]}

\* whether (row_index, column_index) addresses a cell of the table addressed
CellIndices(table_index, row_index, column_index) ==
    /\ table_index \in 0..Len(document.tables) - 1
    /\ row_index \in 0..Len(document.tables[table_index + 1].rows) - 1
    /\ column_index \in 0..document.tables[table_index + 1].columns - 1

\* count, position, row_index and copy_style_from_row of the calls of
\* add_table_rows: rows added at either end and at every index, and one call
\* for each argument that is refused
AddCalls(table_index) ==
    IF table_index \notin 0..Len(document.tables) - 1
    THEN {[count |-> 1, position |-> "end", row_index |-> None,
           copy_style_from_row |-> None]}
    ELSE
    {[count |-> 0, position |-> "end", row_index |-> None,
      copy_style_from_row |-> None],
     [count |-> 1, position |-> "middle", row_index |-> None,
      copy_style_from_row |-> None],
     [count |-> 1, position |-> "at_index", row_index |-> None,
      copy_style_from_row |-> None],
     [count |-> 1, position |-> "end", row_index |-> None,
      copy_style_from_row |-> Some(MaxRows + 1)]}
    \cup {[count |-> n, position |-> "end", row_index |-> None,
           copy_style_from_row |-> None] : n \in 1..MaxRows}
    \cup {[count |-> n, position |-> "beginning", row_index |-> None,
           copy_style_from_row |-> Some(0)] : n \in 1..MaxRows}
    \cup {[count |-> 1, position |-> "at_index", row_index |-> Some(i),
           copy_style_from_row |-> None] : i \in RowIndices(table_index)}

\* row_indices of the calls of delete_table_rows: none, one index, and an
\* index with row 0, which lists row 0 twice when the index is 0
DeleteCalls(table_index) ==
    {<<>>} \cup {<<i>> : i \in RowIndices(table_index)}
           \cup {<<i, 0>> : i \in RowIndices(table_index)}

\* the formatting arguments of the calls of set_cell_value: a call that
\* addresses no cell carries the formatting
SetFormats(table_index, row_index, column_index) ==
    IF CellIndices(table_index, row_index, column_index) THEN {NoFormat, FullFormat}
    ELSE {FullFormat}

\* include_formatting of the calls of get_cell_value
GetFlags(table_index, row_index, column_index) ==
    IF CellIndices(table_index, row_index, column_index) THEN BOOLEAN ELSE {TRUE}

\* the calls build one table, of at most MaxCells cells
NextCrud ==
    \/ /\ document.tables = <<>>
       /\ \E rows \in 0..MaxRows, cols \in 0..MaxCols, call \in CreateCalls :
            create_table(rows, cols, call.position, call.paragraph_index, call.headers)
       /\ SumCells(document'.tables) <= MaxCells
    \/ /\ \E table_index \in TableIndices :
            \E call \in AddCalls(table_index) :
               add_table_rows(table_index, call.count, call.position, call.row_index,
                              call.copy_style_from_row, None, None, None)
       /\ SumCells(document'.tables) <= MaxCells
    \/ \E table_index \in TableIndices :
         \E row_indices \in DeleteCalls(table_index) :
            delete_table_rows(table_index, row_indices)
    \/ \E table_index \in TableIndices :
         \E row_index \in RowIndices(table_index),
            column_index \in ColumnIndices(table_index) :
           \E format \in SetFormats(table_index, row_index, column_index) :
              set_cell_value(table_index, row_index, column_index,
                             Some(<<"a", "\r">>), format.text_format, format.alignment,
                             format.background_color, TRUE)
    \/ \E table_index \in TableIndices :
         \E row_index \in RowIndices(table_index),
            column_index \in ColumnIndices(table_index) :
           \E include_formatting \in GetFlags(table_index, row_index, column_index) :
              get_cell_value(table_index, row_index, column_index, include_formatting)

\* a new document: no paragraph, no table
InitCrud == document = [paragraphs |-> 0, tables |-> <<>>] /\ response = NoResponse

SpecCrud == InitCrud /\ [][NextCrud]_vars

\* ------------------------------------------------------------ several tables
\* the lists of table indices of the calls of search_table_content: one index,
\* and the index after table 0
SearchIndices(table_index) == {Some(<<table_index>>), Some(<<0, table_index>>)}

\* column_index of the calls of add_table_columns
ColumnCalls ==
    {[count |-> 0, position |-> "end", column_index |-> None],
     [count |-> 1, position |-> "end", column_index |-> None],
     [count |-> 1, position |-> "at_index", column_index |-> Some(MaxCols)]}

\* include_headers and format_type of the calls of get_table_data
DataCalls ==
    {[include_headers |-> TRUE, format_type |-> "array"],
     [include_headers |-> FALSE, format_type |-> "object"],
     [include_headers |-> TRUE, format_type |-> "xml"]}

\* every operation that takes a table index is called with indices around the
\* number of tables, on a document of at most MaxTables tables of one row at
\* creation and at most MaxCells cells in all
NextTables ==
    \/ /\ Len(document.tables) < MaxTables
       /\ \E cols \in 1..MaxCols : create_table(1, cols, "end", None, None)
       /\ SumCells(document'.tables) <= MaxCells
    \/ \E table_index \in TableIndices : delete_table(table_index)
    \/ /\ \E table_index \in TableIndices, count \in 0..1 :
             add_table_rows(table_index, count, "end", None, None, None, None, None)
       /\ SumCells(document'.tables) <= MaxCells
    \/ \E table_index \in TableIndices : \E call \in ColumnCalls :
          add_table_columns(table_index, call.count, call.position, call.column_index)
    \/ \E table_index \in TableIndices : \E row_indices \in {<<>>, <<0>>} :
          delete_table_rows(table_index, row_indices)
    \/ \E table_index \in TableIndices :
          set_cell_value(table_index, 0, 0, Some(<<"a">>), None, None, None, TRUE)
    \/ \E table_index \in TableIndices : get_cell_value(table_index, 0, 0, FALSE)
    \/ \E table_index \in TableIndices : \E call \in DataCalls :
          get_table_data(table_index, call.include_headers, call.format_type)
    \/ \E table_index \in TableIndices : analyze_table_structure(table_index, FALSE)
    \/ \E table_index \in TableIndices : \E table_indices \in SearchIndices(table_index) :
          search_table_content(<<"a">>, "contains", FALSE, table_indices, None)

SpecTables == InitCrud /\ [][NextTables]_vars

\* tables of at most one row whose cells are fresh or span two grid columns
ShortTables ==
    LET SpanCell == RunCell(PlainRun(<<"a">>), None, Some(<<"2">>), None)
    IN  UNION {{[columns |-> cols, style |-> Some("Table Grid"), rows |-> rows] :
                  rows \in {<<>>} \cup {<<row>> : row \in [1..cols -> {FreshCell, SpanCell}]}} :
               cols \in 1..MaxCols}

\* a document of at most MaxTables such tables
InitAll ==
    /\ \E n \in 0..MaxTables : \E tables \in [1..n -> ShortTables] :
          document = [paragraphs |-> 0, tables |-> tables]
    /\ response = NoResponse

NextAll ==
    \/ \E include_cell_details \in BOOLEAN : analyze_all_tables(include_cell_details)
    \/ \E table_index \in TableIndices, include_cell_details \in BOOLEAN :
          analyze_table_structure(table_index, include_cell_details)

SpecAll == InitAll /\ [][NextAll]_vars

\* ------------------------------------------------------------ cells written
\* the value argument of the calls of set_cell_value: None, the empty text,
\* and texts with a carriage return, a newline, a tab and a form feed
WriteValues ==
    {None, Some(<<>>), Some(<<"a", "\r">>), Some(<<" ", "\n">>), Some(<<"\t", "b", "\f">>)}

\* the formatting arguments of the calls of set_cell_value: none, all, some of
\* the text and alignment properties, the cell properties alone, and names and
\* colors that the maps and the color parser do not know
WriteFormats ==
    {NoFormat, FullFormat,
     [text_format |-> Some([font_family |-> Some("Times"), font_size |-> None,
                            font_color |-> Some(<<"0", "0", "8", "0", "0", "0">>),
                            bold |-> None, italic |-> Some(TRUE), underline |-> None]),
      alignment |-> Some([horizontal |-> Some(Right), vertical |-> None]),
      background_color |-> None],
     [text_format |-> None,
      alignment |-> Some([horizontal |-> None, vertical |-> Some(Top)]),
      background_color |-> Some(<<"0", "0", "F", "F", "0", "0">>)],
     [text_format |-> Some([font_family |-> None, font_size |-> Some(9),
                            font_color |-> Some(<<"r", "e", "d">>),
                            bold |-> Some(FALSE), italic |-> None,
                            underline |-> Some(TRUE)]),
      alignment |-> Some([horizontal |-> Some(Middle), vertical |-> Some(Center)]),
      background_color |-> Some(<<"#", "a", "b", "c">>)]}

\* one table of one column is created; its first cell is written with every
\* value and with every formatting, a cell below it with plain calls; the
\* cells are read, and the first row is deleted
NextWrite ==
    \/ /\ document.tables = <<>>
       /\ \E rows \in 1..MaxRows : create_table(rows, 1, "end", None, None)
       /\ SumCells(document'.tables) <= MaxCells
    \/ \E value \in WriteValues :
          set_cell_value(0, 0, 0, value, None, None, None, FALSE)
    \/ \E format \in WriteFormats, preserve_existing_format \in BOOLEAN :
          set_cell_value(0, 0, 0, Some(<<"a", "\r">>), format.text_format,
                         format.alignment, format.background_color,
                         preserve_existing_format)
    \/ \E row_index \in 1..MaxRows, value \in {None, Some(<<"b">>)} :
          set_cell_value(0, row_index, 0, value, None, None, None, TRUE)
    \/ \E row_index \in 0..MaxRows, include_formatting \in BOOLEAN :
          get_cell_value(0, row_index, 0, include_formatting)
    \/ get_table_data(0, FALSE, "array")
    \/ search_table_content(<<"b">>, "exact", TRUE, None, None)
    \/ delete_table_rows(0, <<0>>)

SpecWrite == InitCrud /\ [][NextWrite]_vars

\* ------------------------------------------------------------ rows added and deleted
\* one table of one column is created; a cell is written with all the
\* formatting, so that rows differ in content and in formatting; rows are
\* added at either end and at every index, with every reference row and with
\* every argument that is refused, up to MaxRows + 1 rows; rows are deleted
\* with the lists of DeleteCalls
NextRows ==
    \/ /\ document.tables = <<>>
       /\ \E rows \in 1..MaxRows : create_table(rows, 1, "end", None, None)
    \/ \E row_index \in RowIndices(0) :
          set_cell_value(0, row_index, 0, Some(<<"a">>), FullFormat.text_format,
                         FullFormat.alignment, FullFormat.background_color, FALSE)
    \/ /\ \E count \in 0..MaxRows, position \in {"end", "beginning", "middle"} :
             add_table_rows(0, count, position, None, None, None, None, None)
       /\ document'.tables # <<>> => Len(document'.tables[1].rows) <= MaxRows + 1
    \/ /\ \E position \in {"at_index", "end"},
             row_index \in {None} \cup {Some(i) : i \in RowIndices(0)} :
             add_table_rows(0, 1, position, row_index, None, None, None, None)
       /\ document'.tables # <<>> => Len(document'.tables[1].rows) <= MaxRows + 1
    \/ /\ \E position \in {"end", "beginning"}, copy_style_from_row \in RowIndices(0) :
             add_table_rows(0, 1, position, None, Some(copy_style_from_row),
                            None, None, None)
       /\ document'.tables # <<>> => Len(document'.tables[1].rows) <= MaxRows + 1
    \/ \E row_indices \in DeleteCalls(0) : delete_table_rows(0, row_indices)

SpecRows == InitCrud /\ [][NextRows]_vars

\* ------------------------------------------------------------ tables created
\* a document that was loaded: some paragraphs and no table
InitCreate ==
    /\ \E paragraphs \in 0..MaxParagraphs - 1 :
          document = [paragraphs |-> paragraphs, tables |-> <<>>]
    /\ response = NoResponse

\* create_table is called with every number of rows and columns from 0; at
\* the end and at the beginning with no headers, an empty list and lists of
\* every length up to MaxCols; after a paragraph and at an unknown position
\* with paragraph indices around the paragraphs; the header of a table
\* created is read
NextCreate ==
    \/ /\ Len(document.tables) < MaxTables
       /\ \/ \E rows \in 0..MaxRows, cols \in 0..MaxCols :
                create_table(rows, cols, "end", None, None)
          \/ \E cols \in 1..MaxCols, position \in {"end", "beginning"},
                headers \in {Some([i \in 1..n |-> <<"h", "\r">>]) : n \in 0..MaxCols} :
                create_table(1, cols, position, None, headers)
          \/ \E position \in {"after_paragraph", "middle"},
                paragraph_index \in {None, Some(-1), Some(0), Some(MaxParagraphs)} :
                create_table(1, 1, position, paragraph_index, None)
       /\ SumCells(document'.tables) <= MaxCells
       /\ document'.paragraphs <= MaxParagraphs
    \/ \E table_index \in TableIndices : get_cell_value(table_index, 0, 0, FALSE)

SpecCreate == InitCreate /\ [][NextCreate]_vars

\* ------------------------------------------------------------ searches limited
\* a document that was loaded: up to MaxTables tables of one row of MaxCols
\* cells that are empty or hold the text "aa"
InitSearch ==
    /\ \E n \in 1..MaxTables :
          \E tables \in [1..n -> {[columns |-> MaxCols, style |-> Some("Table Grid"),
                                   rows |-> <<row>>] :
                                     row \in [1..MaxCols -> {FreshCell,
                                                             SetCellText(FreshCell, <<"a", "a">>)}]}] :
             document = [paragraphs |-> 0, tables |-> tables]
    /\ response = NoResponse

\* "a" is searched as a part of the cell text, in all tables and in the last
\* and the first table in this order, without a limit and with limits from -1
\* to one more than the cells of a table
NextSearch ==
    \E table_indices \in {None, Some(<<Len(document.tables) - 1, 0>>)},
       max_results \in {None} \cup {Some(n) : n \in -1..MaxCols + 1} :
       search_table_content(<<"a">>, "contains", FALSE, table_indices, max_results)

SpecSearch == InitSearch /\ [][NextSearch]_vars

\* ------------------------------------------------------------ texts searched
\* the texts of the cells searched: no text, a text in which "aa" occurs at
\* two overlapping positions, texts with capital letters, and a text whose
\* lower-case form is longer than the text
FindTexts ==
    {<<>>, <<"a", "a", "a">>, <<"A", "a">>, <<"a", "b">>, <<CapitalIDot, "a">>}

\* the queries: blank ones, and texts of one and two letters
FindQueries == {<<>>, <<" ">>, <<"a">>, <<"a", "a">>, <<"A">>, <<"a", "b">>}

\* a document that was loaded: one table of one row of up to MaxCols cells
InitFind ==
    /\ \E n \in 1..MaxCols :
          \E row \in [1..n -> {IF text = <<>> THEN FreshCell ELSE SetCellText(FreshCell, text) :
                                  text \in FindTexts}] :
             document = [paragraphs |-> 0,
                         tables |-> <<[columns |-> n, style |-> Some("Table Grid"),
                                       rows |-> <<row>>]>>]
    /\ response = NoResponse

\* every query is searched in every mode, "fuzzy" being no mode, with and
\* without regard to letter case, in all tables and without a limit
NextFind ==
    \E query \in FindQueries, search_mode \in {"exact", "contains", "fuzzy"},
       case_sensitive \in BOOLEAN :
       search_table_content(query, search_mode, case_sensitive, None, None)

SpecFind == InitFind /\ [][NextFind]_vars

\* ------------------------------------------------------------ document manager
\* In the specifications of the document manager the variable document holds
\* the manager and the disk:
\*   documents  self._documents: for every path None (not loaded) or the
\*              document object registered under it
\*   objects    for every document object the number of tables it holds (0 for
\*              an object nothing refers to)
\*   files      for every path None (no file), Broken (a file that is not a
\*              document) or the number of tables of the document saved there
\*   callers    the operations in flight (only in SpecRace)
Paths == {"a.docx", "b.docx"}
Broken == Some(-1)
ObjectIds == 1..Cardinality(Paths) + 2

Warning(op, data) == [op |-> op, status |-> "warning", data |-> data]

\* the objects the registry refers to
Registered(documents) == {documents[p][1] : p \in {q \in Paths : documents[q] # None}}

\* a document object that nothing in `used` refers to: what Document() and
\* Document(path) return
NewObject(used) == CHOOSE id \in ObjectIds \ used : \A other \in ObjectIds \ used : id <= other

\* the objects that are still referred to, the others hold nothing
Collected(objects, used) == [id \in ObjectIds |-> IF id \in used THEN objects[id] ELSE 0]

\* the paths that are loaded
LoadedPaths(manager) == {p \in Paths : manager.documents[p] # None}

\* the objects that operations in flight hold
Held(manager) ==
    {manager.callers[c].document[1] :
        c \in {d \in DOMAIN manager.callers : manager.callers[d].document # None}}

\* `self._documents[file_path] = document` for a new object holding `tables`
\* tables
Cached(manager, file_path, tables) ==
    LET others == Registered([manager.documents EXCEPT ![file_path] = None]) \cup Held(manager)
        id == NewObject(others)
    IN  [manager EXCEPT !.documents[file_path] = Some(id),
                        !.objects = Collected([@ EXCEPT ![id] = tables], others \cup {id})]

\* DocumentManager.open_document(file_path, create_if_not_exists)
open_document(file_path, create_if_not_exists) ==
    LET op == [name |-> "open_document", file_path |-> file_path,
               create_if_not_exists |-> create_if_not_exists]
        file == document.files[file_path]
    IN  IF file = Broken
        THEN /\ response' = Error(op, [error |-> "failed_to_open"])
             /\ UNCHANGED document
        ELSE IF file = None /\ ~create_if_not_exists
        THEN /\ response' = Error(op, [error |-> "document_not_found"])
             /\ UNCHANGED document
        ELSE /\ document' = Cached(document, file_path, IF file = None THEN 0 ELSE file[1])
             /\ response' = Success(op, [file_path |-> file_path,
                                         table_count |-> IF file = None THEN 0 ELSE file[1],
                                         is_new |-> file = None])

\* DocumentManager.save_document(file_path, save_as)
save_document(file_path, save_as) ==
    LET op == [name |-> "save_document", file_path |-> file_path, save_as |-> save_as]
        save_path == IF save_as # None THEN save_as[1] ELSE file_path
        id == document.documents[file_path][1]
    IN  IF document.documents[file_path] = None
        THEN /\ response' = Error(op, [error |-> "document_not_loaded"])
             /\ UNCHANGED document
        ELSE /\ document' =
                  [document EXCEPT
                      !.files[save_path] = Some(document.objects[id]),
                      !.documents = IF save_as # None THEN [@ EXCEPT ![save_as[1]] = Some(id)]
                                    ELSE @,
                      !.objects = Collected(@,
                                     Registered(IF save_as # None
                                                THEN [document.documents EXCEPT
                                                          ![save_as[1]] = Some(id)]
                                                ELSE document.documents) \cup Held(document))]
             /\ response' = Success(op, [file_path |-> save_path])

\* close_document answering without `del self._documents[file_path]`
close_document_kept(file_path) ==
    /\ response' = IF document.documents[file_path] # None
                   THEN Success([name |-> "close_document", file_path |-> file_path], None)
                   ELSE Warning([name |-> "close_document", file_path |-> file_path],
                                [warning |-> "document_not_loaded"])
    /\ UNCHANGED document

\* DocumentManager.close_document(file_path)
close_document(file_path) ==
    LET op == [name |-> "close_document", file_path |-> file_path]
    IN  IF document.documents[file_path] # None
        THEN /\ document' =
                  [document EXCEPT
                      !.documents[file_path] = None,
                      !.objects = Collected(@,
                                     Registered([document.documents EXCEPT ![file_path] = None])
                                        \cup Held(document))]
             /\ response' = Success(op, None)
        ELSE /\ response' = Warning(op, [warning |-> "document_not_loaded"])
             /\ UNCHANGED document

\* DocumentManager.list_loaded_documents()
list_loaded_documents ==
    /\ response' = Success([name |-> "list_loaded_documents"],
                           [loaded_documents |-> LoadedPaths(document),
                            count |-> Cardinality(LoadedPaths(document))])
    /\ UNCHANGED document

\* DocumentManager.get_or_load_document(file_path) with create_if_not_exists
\* False: the manager afterwards, the object returned, or what is raised
get_or_load_document(manager, file_path) ==
    LET file == manager.files[file_path]
    IN  IF manager.documents[file_path] # None
        THEN [manager |-> manager, document |-> manager.documents[file_path], raised |-> None]
        ELSE IF file = None
        THEN [manager |-> manager, document |-> None, raised |-> Some("document_not_found")]
        ELSE IF file = Broken
        THEN [manager |-> manager, document |-> None, raised |-> Some("failed_to_load_document")]
        ELSE [manager |-> Cached(manager, file_path, file[1]),
              document |-> Cached(manager, file_path, file[1]).documents[file_path],
              raised |-> None]

\* TableOperations.create_table(file_path, rows, 1, "end") as the manager sees
\* it: the arguments are validated, the document is got or loaded, and the
\* document gains a table
create_table_in(file_path, rows) ==
    LET op == [name |-> "create_table", file_path |-> file_path, rows |-> rows]
        got == get_or_load_document(document, file_path)
    IN  IF rows <= 0
        THEN /\ response' = Error(op, [error |-> "rows_and_columns_must_be_positive"])
             /\ UNCHANGED document
        ELSE IF got.raised # None
        THEN /\ response' = Error(op, [error |-> got.raised[1]])
             /\ UNCHANGED document
        ELSE /\ document' = [got.manager EXCEPT !.objects[got.document[1]] = @ + 1]
             /\ response' = Success(op, [table_index |-> got.manager.objects[got.document[1]]])

\* TableOperations.list_tables(file_path, include_summary) as the manager sees
\* it
list_tables(file_path) ==
    LET op == [name |-> "list_tables", file_path |-> file_path]
        got == get_or_load_document(document, file_path)
    IN  IF got.raised # None
        THEN /\ response' = Error(op, [error |-> got.raised[1]])
             /\ UNCHANGED document
        ELSE /\ document' = got.manager
             /\ response' = Success(op, [total_count |-> got.manager.objects[got.document[1]]])

\* str(e) for what get_or_load_document raises, as the parts of the text
RaisedText(raised, file_path) ==
    IF raised = "document_not_found" THEN <<"Document not found: ", file_path>>
    ELSE <<"Failed to load document ", file_path, ": ">>

\* TableOperations.analyze_table_structure(file_path, table_index) as the
\* manager sees it; the message of an error is held as the parts of its text
analyze_table_structure_in(file_path, table_index) ==
    LET op == [name |-> "analyze_table_structure", file_path |-> file_path,
               table_index |-> table_index]
        got == get_or_load_document(document, file_path)
    IN  IF got.raised # None
        THEN /\ response' = Error(op, [message |-> <<"Failed to analyze table structure: ">>
                                                   \o RaisedText(got.raised[1], file_path)])
             /\ UNCHANGED document
        ELSE /\ document' = got.manager
             /\ response' =
                   IF validate_table_index(table_index,
                                           got.manager.objects[got.document[1]]) # None
                   THEN Error(op, [message |-> <<"Invalid table index">>])
                   ELSE Success(op, [table_index |-> table_index])

\* TableOperations.analyze_all_tables(file_path) as the manager sees it
analyze_all_tables_in(file_path) ==
    LET op == [name |-> "analyze_all_tables", file_path |-> file_path]
        got == get_or_load_document(document, file_path)
    IN  IF got.raised # None
        THEN /\ response' = Error(op, [message |-> <<"Failed to analyze all tables: ">>
                                                   \o RaisedText(got.raised[1], file_path)])
             /\ UNCHANGED document
        ELSE /\ document' = got.manager
             /\ response' = Success(op, [total_tables |-> got.manager.objects[got.document[1]]])

\* a new manager, and on disk no file, a file that is not a document, or a
\* saved document of up to MaxTables - 1 tables under each path
InitManager ==
    /\ \E files \in [Paths -> {None, Broken} \cup {Some(n) : n \in 0..MaxTables - 1}] :
          document = [documents |-> [p \in Paths |-> None],
                      objects |-> [id \in ObjectIds |-> 0],
                      files |-> files,
                      callers |-> <<>>]
    /\ response = NoResponse

\* the calls of the manager and of table operations, a document holding up to
\* MaxTables tables
NextManager ==
    \/ \E file_path \in Paths, create_if_not_exists \in BOOLEAN :
          open_document(file_path, create_if_not_exists)
    \/ \E file_path \in Paths, save_as \in {None} \cup {Some(p) : p \in Paths} :
          save_document(file_path, save_as)
    \/ \E file_path \in Paths : close_document(file_path)
    \/ list_loaded_documents
    \/ \E file_path \in Paths, rows \in 0..1 :
          /\ create_table_in(file_path, rows)
          /\ \A id \in ObjectIds : document'.objects[id] <= MaxTables
    \/ \E file_path \in Paths : list_tables(file_path)
    \/ \E file_path \in Paths, table_index \in 0..1 :
          analyze_table_structure_in(file_path, table_index)
    \/ \E file_path \in Paths : analyze_all_tables_in(file_path)

SpecManager == InitManager /\ [][NextManager]_vars

\* ------------------------------------------------------------ cells formatted
\* TextFormat objects: bold and struck through; a font, a size and a color;
\* a color that validate_color accepts and RGBColor refuses
StruckFormat ==
    [font_family |-> None, font_size |-> None, font_color |-> None, bold |-> Some(TRUE),
     italic |-> None, underline |-> None, strikethrough |-> Some(TRUE)]
FontFormat ==
    [font_family |-> Some("Arial"), font_size |-> Some(12),
     font_color |-> Some(<<"#", "f", "f", "0", "0", "0", "0">>), bold |-> None,
     italic |-> Some(TRUE), underline |-> None, strikethrough |-> None]
RaisingFormat ==
    [font_family |-> Some("Arial"), font_size |-> None,
     font_color |-> Some(<<"-", "1", "2", "3", "4", "5">>), bold |-> Some(TRUE),
     italic |-> None, underline |-> None, strikethrough |-> None]

\* alignment dicts: two names of the enumerations, and a horizontal name that
\* is none
CenterMiddle == [horizontal |-> Some(Center), vertical |-> Some(Middle)]
MiddleOnly == [horizontal |-> Some(<<"C", "e", "n", "t", "e", "r">>), vertical |-> Some(Middle)]

\* colors: one with the sign "#", and a name that is no hex color
HashYellow == <<"#", "f", "f", "f", "f", "0", "0">>
RedName == <<"r", "e", "d">>

\* border dicts: a red top border, and a left border whose color is null
TopBorder ==
    [top |-> Some([style |-> "dashed", width |-> "thick",
                   color |-> Some(<<"f", "f", "0", "0", "0", "0">>)]),
     bottom |-> None, left |-> None, right |-> None]
NullBorder ==
    [top |-> None, bottom |-> None,
     left |-> Some([style |-> "solid", width |-> "thin", color |-> None]), right |-> None]

\* a formatting dict with no section
NoSections ==
    [text_format |-> None, alignment |-> None, background_color |-> None, borders |-> None]

\* a formatting dict with all sections
AllSections ==
    [text_format |-> Some(FontFormat), alignment |-> Some(CenterMiddle),
     background_color |-> Some(HashYellow), borders |-> Some(TopBorder)]

\* the formatting dicts of the calls of format_cell_complete: no section, an
\* empty color only, one section, all sections, two sections, and sections of
\* which the first, the third or the last fails
CompleteFormats ==
    {NoSections,
     [NoSections EXCEPT !.background_color = Some(<<>>)],
     [NoSections EXCEPT !.text_format = Some(StruckFormat)],
     AllSections,
     [NoSections EXCEPT !.alignment = Some(MiddleOnly), !.borders = Some(TopBorder)],
     [AllSections EXCEPT !.text_format = Some(RaisingFormat), !.borders = None],
     [AllSections EXCEPT !.text_format = Some(StruckFormat),
                         !.background_color = Some(RedName)],
     [NoSections EXCEPT !.background_color = Some(HashYellow), !.borders = Some(NullBorder)]}

\* the cells the calls name past the first cell of the first table: a column
\* past the last one, and a table past the last one
OtherTargets == {<<0, 0, MaxCols>>, <<1, 0, 0>>}

\* the path is not loaded, or the document holds one table of one row of up to
\* MaxCols cells, the first one fresh or holding the text "a"
InitFormat ==
    /\ \/ document = None
       \/ \E n \in 1..MaxCols, first \in {FreshCell, SetCellText(FreshCell, <<"a">>)} :
             document = [paragraphs |-> 0,
                         tables |-> <<[columns |-> n, style |-> Some("Table Grid"),
                                       rows |-> <<[c \in 1..n |->
                                                     IF c = 1 THEN first ELSE FreshCell]>>]>>]
    /\ response = NoResponse

\* the formatting operations on the first cell of the first table and on
\* cells that are not there, and the two reports of the first cell of a
\* loaded document
NextFormat ==
    \/ \E formatting \in CompleteFormats : format_cell_complete(0, 0, 0, formatting)
    \/ \E target \in OtherTargets, formatting \in {NoSections, AllSections} :
          format_cell_complete(target[1], target[2], target[3], formatting)
    \/ format_cell_text(0, 0, 0, StruckFormat)
    \/ format_cell_alignment(0, 0, 0, CenterMiddle)
    \/ \E color \in {HashYellow, RedName} : format_cell_background(0, 0, 0, color)
    \/ format_cell_borders(0, 0, 0, TopBorder)
    \/ document # None /\ get_cell_value(0, 0, 0, TRUE)
    \/ document # None /\ analyze_table_structure(0, TRUE)

SpecFormat == InitFormat /\ [][NextFormat]_vars

\* ------------------------------------------------------------ callers interleaved
\* Two callers each run create_table(file_path, 1, 1) once; the steps of
\* get_or_load_document and the mutation are separate steps of a caller, and
\* nothing orders the steps of one caller against those of the other (the
\* manager holds no lock).  A caller is at
\*   "idle"     before its call
\*   "absent"   after `file_path in self._documents` was false
\*   "loaded"   after Document(str(path)) returned its object
\*   "got"      after get_or_load_document returned
\*   "done"     after its response
Callers == {1, 2}

Idle == [pc |-> "idle", file_path |-> "", document |-> None, status |-> "none"]

\* the caller c at its next step
Moved(manager, c, pc) == [manager EXCEPT !.callers[c].pc = pc]

\* `if file_path in self._documents: return self._documents[file_path]`
check_loaded(c, file_path) ==
    /\ document.callers[c].pc = "idle"
    /\ document' =
          IF document.documents[file_path] # None
          THEN [document EXCEPT !.callers[c] =
                   [pc |-> "got", file_path |-> file_path,
                    document |-> document.documents[file_path], status |-> "none"]]
          ELSE [document EXCEPT !.callers[c] =
                   [pc |-> "absent", file_path |-> file_path,
                    document |-> None, status |-> "none"]]
    /\ UNCHANGED response

\* `document = Document(str(path))`, or DocumentNotFoundError /
\* DocumentAccessError, which create_table answers with an error
load_document(c) ==
    LET file_path == document.callers[c].file_path
        file == document.files[file_path]
        op == [name |-> "create_table", file_path |-> file_path, caller |-> c]
        id == NewObject(Registered(document.documents) \cup Held(document))
    IN  /\ document.callers[c].pc = "absent"
        /\ IF file \in {None, Broken}
           THEN /\ document' = [document EXCEPT !.callers[c].pc = "done",
                                                !.callers[c].status = "error"]
                /\ response' = Error(op, [error |-> IF file = None THEN "document_not_found"
                                                    ELSE "failed_to_load_document"])
           ELSE /\ document' = [document EXCEPT !.callers[c].pc = "loaded",
                                                !.callers[c].document = Some(id),
                                                !.objects[id] = file[1]]
                /\ UNCHANGED response

\* a variant of cache_document that keeps a document registered before
cache_document_kept(c) ==
    /\ document.callers[c].pc = "loaded"
    /\ document' =
          [document EXCEPT
              !.callers[c].pc = "got",
              !.documents[document.callers[c].file_path] =
                  IF @ = None THEN document.callers[c].document ELSE @]
    /\ UNCHANGED response

\* `self._documents[file_path] = document`
cache_document(c) ==
    /\ document.callers[c].pc = "loaded"
    /\ document' =
          [document EXCEPT
              !.callers[c].pc = "got",
              !.documents[document.callers[c].file_path] = document.callers[c].document,
              !.objects = Collected(@,
                             Registered([document.documents EXCEPT
                                            ![document.callers[c].file_path] =
                                                document.callers[c].document])
                                \cup Held(document))]
    /\ UNCHANGED response

\* `table = document.add_table(rows=rows, cols=cols)` and the response of
\* create_table
add_table(c) ==
    LET id == document.callers[c].document[1]
        op == [name |-> "create_table", file_path |-> document.callers[c].file_path,
               caller |-> c]
    IN  /\ document.callers[c].pc = "got"
        /\ document' = [document EXCEPT !.callers[c].pc = "done",
                                        !.callers[c].status = "success",
                                        !.objects[id] = @ + 1]
        /\ response' = Success(op, [table_index |-> document.objects[id]])

\* a new manager, two callers before their calls, and on disk no file, a file
\* that is not a document or a saved document under each path
InitRace ==
    /\ \E files \in [Paths -> {None, Broken} \cup {Some(n) : n \in 0..MaxTables - 1}] :
          document = [documents |-> [p \in Paths |-> None],
                      objects |-> [id \in ObjectIds |-> 0],
                      files |-> files,
                      callers |-> [c \in Callers |-> Idle]]
    /\ response = NoResponse

NextRace ==
    \/ \E c \in Callers, file_path \in Paths : check_loaded(c, file_path)
    \/ \E c \in Callers : load_document(c)
    \/ \E c \in Callers : cache_document(c)
    \/ \E c \in Callers : add_table(c)

SpecRace == InitRace /\ [][NextRace]_vars

\* ------------------------------------------------------------ properties
\* the last call was an analysis that succeeded
AnalysisDone ==
    response.op.name = "analyze_table_structure" /\ response.status = "success"

\* the table the last analysis was asked about
AnalyzedTable == document.tables[response.op.table_index + 1]

\* a text that is not blank: it holds a character that is not whitespace
NotBlank(text) == \E i \in 1..Len(text) : ~IsSpace(text[i])

\* C1: has_header is true exactly when the table has a row and every cell of
\* row 0 holds a character that is not whitespace; header_row_index is 0 when
\* has_header is true, header_row_index and header_cells are null otherwise.
C1_HeaderDetection ==
    AnalysisDone =>
        LET t == AnalyzedTable
            h == response.data.header_info
        IN  /\ h.has_header =
                 (/\ Len(t.rows) >= 1
                  /\ \A c \in 1..Len(t.rows[1]) : NotBlank(CellText(t.rows[1][c])))
            /\ h.has_header => h.header_row_index = Some(0)
            /\ ~h.has_header => h.header_row_index = None /\ h.header_cells = None

\* a header was detected in a first row of two cells, one of which has text
\* with surrounding whitespace and another formatting
C1_Witness ==
    /\ AnalysisDone
    /\ response.data.header_info.has_header
    /\ Len(AnalyzedTable.rows[1]) = 2
    /\ \E c \in 1..2 : CellText(AnalyzedTable.rows[1][c]) = <<" ", "a">>
    /\ \E c \in 1..2 : AnalyzedTable.rows[1][c].paragraphs[1].alignment = Some(1)

\* h is text without its leading and trailing whitespace
IsTrimOf(h, text) ==
    \E i \in 0..Len(text) :
        /\ i + Len(h) <= Len(text)
        /\ SubSeq(text, i + 1, i + Len(h)) = h
        /\ \A k \in 1..Len(text) : (k <= i \/ k > i + Len(h)) => IsSpace(text[k])
        /\ h # <<>> => ~IsSpace(h[1]) /\ ~IsSpace(h[Len(h)])

\* C2 as stated: when has_header is true, header_cells[c] is the text reported
\* in cells[0][c].content.text, for every column c.
C2_HeaderCellsVerbatim ==
    (AnalysisDone /\ response.data.header_info.has_header) =>
        LET d == response.data IN
        /\ Len(d.header_info.header_cells[1]) = Len(d.cells[1])
        /\ \A c \in 1..Len(d.cells[1]) :
              d.header_info.header_cells[1][c] = d.cells[1][c].content.text

\* C2 amended: when has_header is true, header_cells[c] is the text reported in
\* cells[0][c].content.text with its leading and trailing whitespace removed.
C2_HeaderCellsTrimmed ==
    (AnalysisDone /\ response.data.header_info.has_header) =>
        LET d == response.data IN
        /\ Len(d.header_info.header_cells[1]) = Len(d.cells[1])
        /\ \A c \in 1..Len(d.cells[1]) :
              IsTrimOf(d.header_info.header_cells[1][c], d.cells[1][c].content.text)

\* a header row with a cell whose text ends in whitespace
C2_Witness ==
    /\ AnalysisDone
    /\ response.data.header_info.has_header
    /\ \E c \in 1..Len(response.data.cells[1]) :
          /\ response.data.cells[1][c].content.text = <<"b", "\n">>
          /\ response.data.header_info.header_cells[1][c] = <<"b">>

\* the cells of the report of the last analysis, as a set
ReportedCells ==
    UNION {{response.data.cells[r][c] : c \in 1..Len(response.data.cells[r])} :
             r \in 1..Len(response.data.cells)}

ReportedFonts == {e.text_format.font_family : e \in ReportedCells} \ {None}
ReportedAlignments == {e.alignment.horizontal : e \in ReportedCells} \ {None}
ReportedBorderStyles ==
    {b[1].style : b \in UNION {{e.borders[side] : side \in {"top", "bottom", "left", "right"}} :
                                 e \in ReportedCells} \ {None}} \ {None}

\* C3: with cell detail enabled, each style_consistency flag is true exactly
\* when at most one distinct non-null value of its dimension is reported across
\* the cells of the table.
C3_StyleConsistency ==
    (AnalysisDone /\ response.op.include_cell_details) =>
        LET sc == response.data.style_consistency IN
        /\ sc.fonts = (Cardinality(ReportedFonts) <= 1)
        /\ sc.alignment = (Cardinality(ReportedAlignments) <= 1)
        /\ sc.borders = (Cardinality(ReportedBorderStyles) <= 1)

\* two fonts are reported (not consistent), no cell reports a border, and one
\* alignment is reported by one cell and none by another
C3_Witness ==
    /\ AnalysisDone /\ response.op.include_cell_details
    /\ Cardinality(ReportedFonts) = 2 /\ ~response.data.style_consistency.fonts
    /\ ReportedBorderStyles = {} /\ response.data.style_consistency.borders
    /\ Cardinality(ReportedAlignments) = 1 /\ response.data.style_consistency.alignment
    /\ \E e \in ReportedCells : e.alignment.horizontal = None

\* C4 as stated: with cell detail disabled the report has the same table_info,
\* header_info, merge_analysis and style_consistency sections as with detail
\* enabled, every per-cell text_format field is null (false for a flag) and
\* every style_summary list is empty.
C4_DetailFlagContract ==
    (AnalysisDone /\ ~response.op.include_cell_details) =>
        LET d == response.data
            full == AnalyzeTable(AnalyzedTable, response.op.table_index, TRUE)
        IN  /\ d.table_info = full.table_info
            /\ d.header_info = full.header_info
            /\ d.merge_analysis = full.merge_analysis
            /\ d.style_consistency = full.style_consistency
            /\ \A e \in ReportedCells :
                  e.text_format = [font_family |-> None, font_size |-> None,
                                   font_color |-> None, bold |-> FALSE, italic |-> FALSE,
                                   underlined |-> FALSE, strikethrough |-> FALSE]
            /\ d.style_summary = [font_families |-> {}, font_sizes |-> {},
                                  colors |-> {}, background_colors |-> {}]

HasSpan(cell) ==
    cell.gridSpan = None \/ \E n \in 1..9 : cell.gridSpan = Some(<<Digits[n + 1]>>)
SpanOf(cell) ==
    IF cell.gridSpan = None THEN 1
    ELSE CHOOSE n \in 1..9 : cell.gridSpan = Some(<<Digits[n + 1]>>)

\* the vMerge element of a cell: None, or Some(its val attribute or None)
MarkerOf(cell) == IF cell.tcPr = None THEN None ELSE cell.tcPr[1].vMerge

\* C6: for a cell at (row, col) with grid span N and a vertical-merge marker
\* that is absent or carries a value, no descriptor is reported when N = 1 and
\* the marker is absent; otherwise the descriptor has type both / horizontal /
\* vertical, span_cols = N, span_rows = 1, start_row = end_row = row,
\* start_col = col and end_col = col + N - 1.
C6_MergeDescriptor ==
    AnalysisDone =>
        \A p \in Positions(AnalyzedTable) :
            LET cell == AnalyzedTable.rows[p[1]][p[2]]
                row == p[1] - 1
                col == p[2] - 1
                m == response.data.cells[p[1]][p[2]].merge
                marked == MarkerOf(cell) # None
            IN  (HasSpan(cell) /\ (marked => MarkerOf(cell)[1] # None)) =>
                    IF SpanOf(cell) = 1 /\ ~marked THEN m = None
                    ELSE /\ m # None
                         /\ m[1].type = IF SpanOf(cell) > 1 /\ marked THEN "both"
                                        ELSE IF SpanOf(cell) > 1 THEN "horizontal"
                                        ELSE "vertical"
                         /\ m[1].span_cols = SpanOf(cell) /\ m[1].span_rows = 1
                         /\ m[1].start_row = row /\ m[1].end_row = row
                         /\ m[1].start_col = col /\ m[1].end_col = col + SpanOf(cell) - 1

\* a cell in column 1 with grid span 3 and a marker is reported as "both", and
\* a cell with grid span 1 and no marker as not merged
C6_Witness ==
    /\ AnalysisDone
    /\ \E e \in ReportedCells :
          /\ e.merge # None /\ e.merge[1].type = "both"
          /\ e.merge[1].start_col = 1 /\ e.merge[1].end_col = 3
    /\ \E p \in Positions(AnalyzedTable) :
          /\ AnalyzedTable.rows[p[1]][p[2]].gridSpan = Some(<<"1">>)
          /\ response.data.cells[p[1]][p[2]].merge = None

\* C7 as stated: a cell with a vertical-merge marker, whatever the marker's
\* value and also when it has none, is reported with a descriptor of type
\* vertical or both.
C7_MarkerPresenceIsVerticalMerge ==
    AnalysisDone =>
        \A p \in Positions(AnalyzedTable) :
            LET cell == AnalyzedTable.rows[p[1]][p[2]]
                m == response.data.cells[p[1]][p[2]].merge
            IN  (HasSpan(cell) /\ MarkerOf(cell) # None) =>
                    m # None /\ m[1].type \in {"vertical", "both"}

\* a cell whose gridSpan attribute is not a number
GridSpanNotANumber(cell) ==
    /\ cell.gridSpan # None /\ cell.gridSpan[1] # <<>>
    /\ \E i \in 1..Len(cell.gridSpan[1]) : ~IsDigit(cell.gridSpan[1][i])

\* a cell whose borders cannot be looked up: tcBorders without default namespace
BordersUnreadable(cell) ==
    /\ cell.tcPr # None /\ cell.tcPr[1].tcBorders # None
    /\ cell.tcPr[1].tcBorders[1].nsDefault = None

Failing(cell) == GridSpanNotANumber(cell) \/ BordersUnreadable(cell)

\* the table with every failing cell replaced by a fresh one
WithoutFailures(table) ==
    [table EXCEPT !.rows =
        [r \in 1..Len(table.rows) |-> [c \in 1..Len(table.rows[r]) |->
            IF Failing(table.rows[r][c]) THEN FreshCell ELSE table.rows[r][c]]]]

\* C8: an analysis of an existing table succeeds whatever its cells; a cell
\* whose merge detection raises is reported as not merged; a cell whose style
\* extraction raises at the borders keeps the font, alignment and background
\* read before and has null borders; the entries of all other cells are those
\* of the same table without the failing cells.
C8_FailuresAreSwallowed ==
    (/\ response.op.name = "analyze_table_structure"
     /\ response.op.table_index \in 0..Len(document.tables) - 1) =>
        /\ response.status = "success"
        /\ LET repaired == AnalyzeTable(WithoutFailures(AnalyzedTable),
                                        response.op.table_index,
                                        response.op.include_cell_details)
           IN  \A p \in Positions(AnalyzedTable) :
              LET cell == AnalyzedTable.rows[p[1]][p[2]]
                  e == response.data.cells[p[1]][p[2]]
                  run == cell.paragraphs[1].runs[1]
              IN  /\ GridSpanNotANumber(cell) => e.merge = None
                  /\ (BordersUnreadable(cell) /\ response.op.include_cell_details) =>
                        /\ e.text_format.font_family = run.name
                        /\ e.text_format.bold = (run.bold = Some(TRUE))
                        /\ e.alignment.horizontal # None
                        /\ e.background.color = cell.tcPr[1].shd[1]
                        /\ e.borders = NoBorders
                  /\ ~Failing(cell) => e = repaired.cells[p[1]][p[2]]

\* a table with a cell whose gridSpan is not a number, a cell whose borders
\* cannot be read and fresh cells was analysed with cell detail
C8_Witness ==
    /\ AnalysisDone /\ response.op.include_cell_details
    /\ \E p \in Positions(AnalyzedTable) : GridSpanNotANumber(AnalyzedTable.rows[p[1]][p[2]])
    /\ \E p \in Positions(AnalyzedTable) :
          /\ BordersUnreadable(AnalyzedTable.rows[p[1]][p[2]])
          /\ response.data.cells[p[1]][p[2]].background.color = Some(Yellow)
    /\ \E p \in Positions(AnalyzedTable) : AnalyzedTable.rows[p[1]][p[2]] = FreshCell

\* C9: the cells grid has one row per table row and one entry per cell of the
\* row; entry [r][c] carries position (r, c), the cell's text, is_empty = the
\* text is blank, and the cell's merge descriptor or null; with cell detail
\* disabled the fonts, alignments, background and borders of every entry are
\* null.
C9_CellsGrid ==
    AnalysisDone =>
        LET t == AnalyzedTable
            d == response.data
        IN  /\ Len(d.cells) = Len(t.rows)
            /\ \A r \in 1..Len(t.rows) :
                  /\ Len(d.cells[r]) = Len(t.rows[r])
                  /\ \A c \in 1..Len(t.rows[r]) :
                        LET cell == t.rows[r][c]
                            e == d.cells[r][c]
                            m == analyze_cell_merge(cell, r - 1, c - 1)
                        IN  /\ e.position = [row |-> r - 1, column |-> c - 1]
                            /\ e.content.text = CellText(cell)
                            /\ e.content.is_empty = ~NotBlank(CellText(cell))
                            /\ e.merge = IF m = None THEN None ELSE Some(MergeDict(m[1]))
                            /\ ~response.op.include_cell_details =>
                                  /\ e.text_format.font_family = None
                                  /\ e.text_format.font_size = None
                                  /\ e.text_format.font_color = None
                                  /\ e.alignment = [horizontal |-> None, vertical |-> None]
                                  /\ e.background.color = None
                                  /\ e.borders = NoBorders

\* a 2 x 2 table analysed without cell detail, with a merged cell in row 1 and
\* a cell whose text is a single space
C9_Witness ==
    /\ AnalysisDone /\ ~response.op.include_cell_details
    /\ Len(response.data.cells) = 2 /\ Len(response.data.cells[2]) = 2
    /\ \E c \in 1..2 : response.data.cells[2][c].merge # None
    /\ \E e \in ReportedCells : e.content.text = <<" ">> /\ e.content.is_empty

\* (row_index, column_index) lies outside the rows and grid columns of table
OutOfBounds(table, row_index, column_index) ==
    \/ row_index < 0
    \/ column_index < 0
    \/ row_index >= Len(table.rows)
    \/ column_index >= table.columns

\* C10: a call of get_cell_value or set_cell_value on an existing table returns
\* an error exactly when r < 0, c < 0, r >= the number of rows the table has
\* when the call is made or c >= its number of columns then; a call that
\* returns an error leaves the document as it was.
C10_BoundsAtTimeOfCall ==
    [][(/\ response'.op.name \in {"get_cell_value", "set_cell_value"}
        /\ response'.op.table_index \in 0..Len(document.tables) - 1) =>
          /\ (response'.status = "error") =
                OutOfBounds(document.tables[response'.op.table_index + 1],
                            response'.op.row_index, response'.op.column_index)
          /\ response'.status = "error" => document' = document]_vars

\* every row of a table of two columns has been deleted, and set_cell_value
\* is refused at (0, 0), a position that the table had when it was created
C10_Witness ==
    /\ response.op.name = "set_cell_value" /\ response.status = "error"
    /\ response.op.table_index = 0 /\ Len(document.tables) = 1
    /\ response.op.row_index = 0 /\ response.op.column_index = 0
    /\ document.tables[1].columns = 2
    /\ document.tables[1].rows = <<>>

\* the table indices a call carries
IndicesOf(op) ==
    IF op.name = "search_table_content"
    THEN (IF op.table_indices = None THEN {}
          ELSE {op.table_indices[1][i] : i \in 1..Len(op.table_indices[1])})
    ELSE IF op.name \in {"delete_table", "add_table_rows", "add_table_columns",
                         "delete_table_rows", "set_cell_value", "get_cell_value",
                         "get_table_data", "analyze_table_structure"}
    THEN {op.table_index}
    ELSE {}

\* C11: a call that carries a table index that is negative or not below the
\* number of tables returns an error and leaves the document as it was; a
\* delete_table(i) that succeeds leaves one table less, the tables below i
\* where they were and every table above i one index lower.
C11_TableIndexChecked ==
    [][/\ (\E i \in IndicesOf(response'.op) : i < 0 \/ i >= Len(document.tables)) =>
             (response'.status = "error" /\ document' = document)
       /\ (response'.op.name = "delete_table" /\ response'.status = "success") =>
             /\ Len(document'.tables) = Len(document.tables) - 1
             /\ \A j \in 0..Len(document.tables) - 1 :
                   /\ j < response'.op.table_index =>
                         document'.tables[j + 1] = document.tables[j + 1]
                   /\ j > response'.op.table_index =>
                         document'.tables[j] = document.tables[j + 1]]_vars

\* delete_table(0) succeeded on a document of two tables: the table left, at
\* index 0, is one whose cell was written and whose columns are MaxCols
C11_Witness ==
    /\ response.op.name = "delete_table" /\ response.status = "success"
    /\ response.op.table_index = 0
    /\ Len(document.tables) = 1
    /\ document.tables[1].rows # <<>>
    /\ CellText(document.tables[1].rows[1][1]) = <<"a">>

\* ------------------------------------------------------------ C12
\* C12: for a document of n >= 1 tables analyze_all_tables reports
\* total_tables = n and one entry per table in index order, each entry equal to
\* the report analyze_table_structure gives for that table with the same
\* include_cell_details flag, cells grid and merge regions included.
C12_AllTablesMatchSingleReports ==
    (/\ response.op.name = "analyze_all_tables"
     /\ Len(document.tables) >= 1)
    => /\ response.status = "success"
       /\ response.data.file_info.total_tables = Len(document.tables)
       /\ Len(response.data.tables) = Len(document.tables)
       /\ \A i \in 1..Len(document.tables) :
             response.data.tables[i] =
                AnalyzeTable(document.tables[i], i - 1, response.op.include_cell_details)

\* ------------------------------------------------------------ C13
\* the cell that the call `op` addresses in the document `doc`
CellAt(doc, op) ==
    doc.tables[op.table_index + 1].rows[op.row_index + 1][op.column_index + 1]

\* the text v without its control characters other than newline and tab; the
\* empty text for None
Cleaned(v) ==
    IF v = None THEN <<>>
    ELSE SelectSeq(v[1], LAMBDA ch : ~IsControl(ch) \/ ch \in {"\n", "\t"})

Blank(text) == \A i \in 1..Len(text) : IsSpace(text[i])

ReadingCalls ==
    {"get_cell_value", "get_table_data", "search_table_content",
     "analyze_table_structure", "analyze_all_tables"}

\* C13: a successful set_cell_value(table, r, c, v) leaves in the cell the
\* text v without its control characters other than newline and tab (the empty
\* text for None) and changes no other cell; a successful get_cell_value
\* returns the text of the cell it addresses as value, with is_empty = (the
\* text is blank), so that a get_cell_value that follows the write returns the
\* cleaned v; the calls that read leave the document as it is.
C13_WrittenValueIsRead ==
    [][LET op == response'.op
           written == response'.status = "success" /\ op.name = "set_cell_value"
           read == response'.status = "success" /\ op.name = "get_cell_value"
       IN  /\ written =>
                /\ CellText(CellAt(document', op)) = Cleaned(op.value)
                /\ document' = [document EXCEPT
                      !.tables[op.table_index + 1].rows[op.row_index + 1][op.column_index + 1]
                          = CellAt(document', op)]
           /\ read =>
                /\ response'.data.value = CellText(CellAt(document, op))
                /\ response'.data.is_empty = Blank(response'.data.value)
           /\ (/\ read
               /\ response.status = "success"
               /\ response.op.name = "set_cell_value"
               /\ <<response.op.table_index, response.op.row_index, response.op.column_index>>
                     = <<op.table_index, op.row_index, op.column_index>>)
              => /\ response'.data.value = Cleaned(response.op.value)
                 /\ response'.data.is_empty = Blank(Cleaned(response.op.value))
           /\ op.name \in ReadingCalls => document' = document]_vars

\* the first cell was written with a tab, a letter and a form feed, the cell
\* below it was written afterwards, and the first cell is read
C13_Witness ==
    /\ response.status = "success"
    /\ response.op.name = "get_cell_value"
    /\ response.op.row_index = 0
    /\ response.data.value = <<"\t", "b">>
    /\ ~response.data.is_empty
    /\ Len(document.tables[1].rows) >= 2
    /\ CellText(document.tables[1].rows[2][1]) = <<"b">>

\* ------------------------------------------------------------ C14
\* the formatting get_cell_value reports for a cell
Reported(cell) == CellValueData(cell, 0, 0, TRUE).formatting[1]

\* a color given as six upper-case hex digits
SixHexDigits(color) ==
    /\ Len(color) = 6
    /\ \A i \in 1..6 : color[i] \in {"0", "1", "2", "3", "4", "5", "6", "7", "8", "9",
                                     "A", "B", "C", "D", "E", "F"}

\* the name get_cell_value reports for a supplied horizontal alignment
HorizontalName(name) ==
    IF name = Left THEN Some("left")
    ELSE IF name = Center THEN Some("center")
    ELSE IF name = Right THEN Some("right")
    ELSE IF name = Justify THEN Some("justify")
    ELSE None

\* the name get_cell_value reports for a supplied vertical alignment
VerticalName(name) ==
    IF name = Top THEN Some(Top)
    ELSE IF name = Middle THEN Some(Center)
    ELSE IF name = Bottom THEN Some(Bottom)
    ELSE None

\* every text property that text_format supplies is reported in `text`
TextSuppliedIn(text_format, text) ==
    /\ text_format.font_family # None => text.font_family = text_format.font_family
    /\ text_format.font_size # None => text.font_size = text_format.font_size
    /\ (text_format.font_color # None /\ SixHexDigits(text_format.font_color[1]))
          => text.font_color = text_format.font_color
    /\ text_format.bold # None => text.bold = text_format.bold[1]
    /\ text_format.italic # None => text.italic = text_format.italic[1]
    /\ text_format.underline # None => text.underlined = text_format.underline[1]

\* every alignment that `alignment` supplies under one of the names, in
\* either case, is reported in `reported`
AlignmentSuppliedIn(alignment, reported) ==
    /\ (alignment.horizontal # None /\ HorizontalName(Lower(alignment.horizontal[1])) # None)
          => reported.horizontal = HorizontalName(Lower(alignment.horizontal[1]))
    /\ (alignment.vertical # None /\ VerticalName(Lower(alignment.vertical[1])) # None)
          => reported.vertical = VerticalName(Lower(alignment.vertical[1]))

\* every property that the call `op` supplies is reported in `formatting`
SuppliedIn(op, formatting) ==
    /\ op.text_format # None => TextSuppliedIn(op.text_format[1], formatting.text_format)
    /\ op.alignment # None => AlignmentSuppliedIn(op.alignment[1], formatting.alignment)
    /\ (op.background_color # None /\ SixHexDigits(op.background_color[1]))
          => formatting.background_color = op.background_color

\* the properties that the response of set_cell_value echoes, as `formatting`
\* holds them
Echoed(formatting) ==
    [text_format |-> [k \in {"font_family", "font_size", "font_color", "bold", "italic",
                             "underlined"} |-> formatting.text_format[k]],
     alignment |-> formatting.alignment,
     background_color |-> formatting.background_color]

\* C14: after a successful set_cell_value with preserve_existing_format =
\* false, get_cell_value on the cell reports every supplied property (font
\* family, size, color, bold, italic, underline; horizontal alignment left,
\* center, right or justify; vertical alignment top, center or bottom for top,
\* middle or bottom; background color; colors being six upper-case hex
\* digits), and the formatting echoed in the response of set_cell_value is
\* what get_cell_value reports, also in the call that follows.
C14_SuppliedFormattingIsReported ==
    [][LET op == response'.op
           written == response'.status = "success" /\ op.name = "set_cell_value"
           follows == /\ response.status = "success"
                      /\ response.op.name = "set_cell_value"
                      /\ response'.status = "success"
                      /\ op.name = "get_cell_value"
                      /\ op.include_formatting
                      /\ <<response.op.table_index, response.op.row_index,
                           response.op.column_index>>
                            = <<op.table_index, op.row_index, op.column_index>>
       IN  /\ written =>
                /\ response'.data.applied_formatting = Echoed(Reported(CellAt(document', op)))
                /\ ~op.preserve_existing_format
                      => SuppliedIn(op, Reported(CellAt(document', op)))
           /\ follows =>
                /\ Echoed(response'.data.formatting[1]) = response.data.applied_formatting
                /\ ~response.op.preserve_existing_format
                      => SuppliedIn(response.op, response'.data.formatting[1])]_vars

\* the first cell was written without preserving, with the family Times, the
\* color 008000, italic and right alignment, and the cell reports them
C14_Witness ==
    /\ response.status = "success"
    /\ response.op.name = "set_cell_value"
    /\ ~response.op.preserve_existing_format
    /\ response.op.text_format # None
    /\ response.op.text_format[1].font_family = Some("Times")
    /\ Reported(CellAt(document, response.op)).text_format.font_family = Some("Times")
    /\ Reported(CellAt(document, response.op)).text_format.font_color
          = Some(<<"0", "0", "8", "0", "0", "0">>)
    /\ Reported(CellAt(document, response.op)).text_format.italic
    /\ Reported(CellAt(document, response.op)).alignment.horizontal = Some("right")
    /\ response.data.applied_formatting.alignment.horizontal = Some("right")

\* ------------------------------------------------------------ C15
\* every text property that text_format (None or a TextFormat) does not supply
\* is in `after` as it is in `before`
TextKept(text_format, before, after) ==
    /\ (text_format = None \/ text_format[1].font_family = None)
          => after.font_family = before.font_family
    /\ (text_format = None \/ text_format[1].font_size = None)
          => after.font_size = before.font_size
    /\ (text_format = None \/ text_format[1].font_color = None)
          => after.font_color = before.font_color
    /\ (text_format = None \/ text_format[1].bold = None) => after.bold = before.bold
    /\ (text_format = None \/ text_format[1].italic = None) => after.italic = before.italic
    /\ (text_format = None \/ text_format[1].underline = None)
          => after.underlined = before.underlined

\* every property that the call `op` does not supply is in `after` as it is
\* in `before`
Kept(op, before, after) ==
    /\ TextKept(op.text_format, before.text_format, after.text_format)
    /\ (op.alignment = None \/ op.alignment[1].horizontal = None)
          => after.alignment.horizontal = before.alignment.horizontal
    /\ (op.alignment = None \/ op.alignment[1].vertical = None)
          => after.alignment.vertical = before.alignment.vertical
    /\ op.background_color = None => after.background_color = before.background_color

\* C15: a successful set_cell_value with preserve_existing_format = true
\* replaces the text of the cell, leaves every formatting property that the
\* call does not supply as get_cell_value reported it before the call (font
\* family, size, color, bold, italic, underline, horizontal and vertical
\* alignment, background color), and gives every supplied property the
\* supplied value.
C15_UnsuppliedFormattingIsKept ==
    [][(/\ response'.status = "success"
        /\ response'.op.name = "set_cell_value"
        /\ response'.op.preserve_existing_format)
       => /\ CellText(CellAt(document', response'.op)) = Cleaned(response'.op.value)
          /\ Kept(response'.op, Reported(CellAt(document, response'.op)),
                  Reported(CellAt(document', response'.op)))
          /\ SuppliedIn(response'.op, Reported(CellAt(document', response'.op)))]_vars

\* a cell in Times, italic and aligned right was written, preserving, with a
\* vertical alignment and a background color only
C15_Witness ==
    /\ response.status = "success"
    /\ response.op.name = "set_cell_value"
    /\ response.op.preserve_existing_format
    /\ response.op.text_format = None
    /\ response.op.background_color # None
    /\ Reported(CellAt(document, response.op)).text_format.font_family = Some("Times")
    /\ Reported(CellAt(document, response.op)).text_format.italic
    /\ Reported(CellAt(document, response.op)).alignment.horizontal = Some("right")
    /\ Reported(CellAt(document, response.op)).alignment.vertical = Some(Top)
    /\ Reported(CellAt(document, response.op)).background_color
          = Some(<<"0", "0", "F", "F", "0", "0">>)

\* ------------------------------------------------------------ C16
\* the rows of the table that the call `op` addresses in the document `doc`
RowsAt(doc, op) == doc.tables[op.table_index + 1].rows

\* the number of rows that precede the rows added by the call `op` to a table
\* of n rows
AddedAt(op, n) ==
    IF op.position = "end" THEN n
    ELSE IF op.position = "beginning" THEN 0
    ELSE op.row_index[1]

\* the arguments of the call `op` of add_table_rows that the claim names as
\* refused, for a table of n rows
AddRefused(op, n) ==
    \/ op.count <= 0
    \/ op.position \notin {"end", "beginning", "at_index"}
    \/ op.position = "at_index" /\ op.row_index = None
    \/ op.position = "at_index" /\ op.row_index # None
          /\ op.row_index[1] \notin 0..n - 1
    \/ op.copy_style_from_row # None /\ op.copy_style_from_row[1] \notin 0..n - 1

\* C16: add_table_rows with count k >= 1 on a table of n rows succeeds with
\* new_row_count = n + k and leaves n + k rows, the old rows with their content
\* in their order around the k new rows, which are the last rows for "end",
\* the first rows for "beginning" and the rows i .. i+k-1 for "at_index" with
\* row_index i; with count <= 0, an unknown position, "at_index" without
\* row_index or with a row_index out of range, or a copy_style_from_row out of
\* range, it returns an error and the document is unchanged.
C16_RowsAddedInPlace ==
    [][(/\ response'.op.name = "add_table_rows"
        /\ response'.op.table_index \in 0..Len(document.tables) - 1)
       => LET op == response'.op
              old == RowsAt(document, op)
              new == RowsAt(document', op)
              n == Len(old)
              k == op.count
              at == AddedAt(op, n)
          IN  IF AddRefused(op, n)
              THEN response'.status = "error" /\ document' = document
              ELSE /\ response'.status = "success"
                   /\ response'.data.new_row_count = n + k
                   /\ Len(new) = n + k
                   /\ SubSeq(new, 1, at) = SubSeq(old, 1, at)
                   /\ SubSeq(new, at + k + 1, n + k) = SubSeq(old, at + 1, n)
                   /\ document' = [document EXCEPT !.tables[op.table_index + 1].rows = new]]_vars

\* a row was added at index 1 of a table of two rows whose second row is
\* written: the written row is now the third
C16_Witness ==
    /\ response.status = "success"
    /\ response.op.name = "add_table_rows"
    /\ response.op.position = "at_index"
    /\ response.op.row_index = Some(1)
    /\ response.data.new_row_count = 3
    /\ CellText(document.tables[1].rows[1][1]) = <<>>
    /\ CellText(document.tables[1].rows[2][1]) = <<>>
    /\ CellText(document.tables[1].rows[3][1]) = <<"a">>

\* ------------------------------------------------------------ C17
\* the row that the claim names as the reference row of the call `op` on the
\* rows `old`
ClaimedReference(op, old) ==
    IF op.copy_style_from_row # None THEN old[op.copy_style_from_row[1] + 1]
    ELSE IF op.position = "end" THEN old[Len(old)]
    ELSE IF op.position = "beginning" THEN old[1]
    ELSE IF op.row_index[1] = 0 THEN old[1]
    ELSE old[op.row_index[1]]

C18_ListedRowsDeleted ==
    [][(/\ response'.op.name = "delete_table_rows"
        /\ response'.op.table_index \in 0..Len(document.tables) - 1)
       => LET op == response'.op
              old == RowsAt(document, op)
              new == RowsAt(document', op)
              listed == {op.row_indices[i] : i \in 1..Len(op.row_indices)}
              kept == SelectSeq([i \in 1..Len(old) |-> i - 1], LAMBDA i : i \notin listed)
          IN  IF listed = {} \/ \E i \in listed : i \notin 0..Len(old) - 1
              THEN response'.status = "error" /\ document' = document
              ELSE /\ response'.status = "success"
                   /\ response'.data.rows_deleted = Cardinality(listed)
                   /\ response'.data.remaining_rows = Len(old) - Cardinality(listed)
                   /\ new = [n \in 1..Len(kept) |-> old[kept[n] + 1]]
                   /\ document' = [document EXCEPT !.tables[op.table_index + 1].rows = new]]_vars

\* row 0 was listed twice and deleted once from a table of three rows, and the
\* written row that followed it is now the first
C18_Witness ==
    /\ response.status = "success"
    /\ response.op.name = "delete_table_rows"
    /\ response.op.row_indices = <<0, 0>>
    /\ response.data.rows_deleted = 1
    /\ response.data.remaining_rows = 2
    /\ CellText(document.tables[1].rows[1][1]) = <<"a">>
    /\ CellText(document.tables[1].rows[2][1]) = <<>>

\* ------------------------------------------------------------ C19
\* C19: create_table returns an error and adds no table when rows <= 0,
\* cols <= 0 or a non-empty headers list of another length than cols is
\* given; otherwise, for every accepted position (end, beginning, and
\* after_paragraph with the index of a paragraph), it adds exactly one table of
\* the requested rows and columns, with the headers (when given) as the texts
\* of its row 0, and returns the table_index that addresses the new table.
C19_TableCreatedAtEveryPosition ==
    [][response'.op.name = "create_table"
       => LET op == response'.op
              has_headers == op.headers # None /\ op.headers[1] # <<>>
              accepted ==
                  \/ op.position \in {"end", "beginning"}
                  \/ /\ op.position = "after_paragraph"
                     /\ op.paragraph_index # None
                     /\ op.paragraph_index[1] \in 0..document.paragraphs - 1
          IN  IF op.rows <= 0 \/ op.cols <= 0
                 \/ (has_headers /\ Len(op.headers[1]) # op.cols)
              THEN response'.status = "error" /\ document'.tables = document.tables
              ELSE accepted =>
                     /\ response'.status = "success"
                     /\ Len(document'.tables) = Len(document.tables) + 1
                     /\ response'.data.table_index \in 0..Len(document'.tables) - 1
                     /\ LET table == document'.tables[response'.data.table_index + 1]
                        IN  /\ Len(table.rows) = op.rows
                            /\ table.columns = op.cols
                            /\ \A r \in 1..op.rows : Len(table.rows[r]) = op.cols
                            /\ has_headers =>
                                  \A c \in 1..op.cols :
                                     CellText(table.rows[1][c]) = Cleaned(Some(op.headers[1][c]))
                            /\ \A i \in 1..Len(document.tables) :
                                  \E j \in 1..Len(document'.tables) :
                                     /\ j # response'.data.table_index + 1
                                     /\ document'.tables[j] = document.tables[i]]_vars

\* ------------------------------------------------------------ C20
\* the matches of the search of the call `op` without its limit
Unlimited(op) ==
    SearchTables([matches |-> <<>>, searched |-> 0, tables_with_matches |-> 0,
                  matches_per_table |-> <<>>],
                 document.tables,
                 IF op.table_indices = None THEN [i \in 1..Len(document.tables) |-> i - 1]
                 ELSE op.table_indices[1],
                 [op EXCEPT !.max_results = None]).matches

\* whether the match m comes before the match n in the order table, row,
\* column, position within the cell
Before(m, n) ==
    \/ m.table_index < n.table_index
    \/ m.table_index = n.table_index /\ m.row_index < n.row_index
    \/ m.table_index = n.table_index /\ m.row_index = n.row_index
          /\ m.column_index < n.column_index
    \/ m.table_index = n.table_index /\ m.row_index = n.row_index
          /\ m.column_index = n.column_index /\ m.match_start < n.match_start

\* C20: a successful search_table_content with an integer max_results returns
\* at most max_results matches (none for a negative limit), total_matches is
\* the number of matches returned, and the matches returned are the first
\* ones of the search without limit, which for a search of all tables are in
\* the order table, row, column, position within the cell.
C20_MaxResultsLimits ==
    (/\ response.op.name = "search_table_content"
     /\ response.status = "success"
     /\ response.op.max_results # None)
    => LET matches == response.data.matches
           all == Unlimited(response.op)
           limit == IF response.op.max_results[1] < 0 THEN 0
                    ELSE response.op.max_results[1]
       IN  /\ Len(matches) <= limit
           /\ response.data.total_matches = Len(matches)
           /\ Len(matches) = IF Len(all) < limit THEN Len(all) ELSE limit
           /\ matches = SubSeq(all, 1, Len(matches))
           /\ response.op.table_indices = None
                 => \A i \in 1..Len(matches) - 1 : Before(matches[i], matches[i + 1])

\* ------------------------------------------------------------ C21
\* whether the characters a and b are the same, letter case ignored unless
\* case_sensitive
SameChar(a, b, case_sensitive) ==
    a = b \/ (~case_sensitive /\ LowerChar(a) = LowerChar(b))

\* whether query occurs in text at the position pos
Occurs(text, query, pos, case_sensitive) ==
    /\ pos + Len(query) <= Len(text)
    /\ \A i \in 1..Len(query) : SameChar(text[pos + i], query[i], case_sensitive)

\* the cells of the document and the positions in their texts at which the
\* query of the call `op` occurs
Occurrences(doc, op) ==
    UNION {UNION {UNION {{<<t - 1, r - 1, c - 1, pos>> :
                            pos \in {p \in 0..Len(CellText(doc.tables[t].rows[r][c])) :
                                        Occurs(CellText(doc.tables[t].rows[r][c]), op.query, p,
                                               op.case_sensitive)}} :
                         c \in 1..Len(doc.tables[t].rows[r])} :
                  r \in 1..Len(doc.tables[t].rows)} :
           t \in 1..Len(doc.tables)}

\* the cells of the document whose whole text is the query of the call `op`
WholeTexts(doc, op) ==
    {o \in Occurrences(doc, op) :
        o[4] = 0 /\ Len(CellText(doc.tables[o[1] + 1].rows[o[2] + 1][o[3] + 1])) = Len(op.query)}

\* table, row, column and start of the matches returned
MatchesAt(matches) ==
    {<<matches[i].table_index, matches[i].row_index, matches[i].column_index,
       matches[i].match_start>> : i \in 1..Len(matches)}

\* C21: search_table_content without max_results returns an error for a blank
\* query or an unknown mode; for a non-blank query it returns, in "contains"
\* mode, one match for every position at which the query occurs in a cell's
\* text (overlapping occurrences included, letter case ignored unless
\* case_sensitive), with match_start that position and match_end = match_start
\* + the length of the query, and in "exact" mode one match from 0 to the
\* length of the text for every cell whose whole text is the query.
C21_MatchesAreTheOccurrences ==
    (response.op.name = "search_table_content" /\ response.op.max_results = None)
    => LET op == response.op
       IN  IF Strip(op.query) = <<>> \/ op.search_mode \notin {"exact", "contains", "regex"}
           THEN response.status = "error"
           ELSE /\ response.status = "success"
                /\ op.search_mode = "contains"
                      => /\ MatchesAt(response.data.matches) = Occurrences(document, op)
                         /\ Len(response.data.matches) = Cardinality(Occurrences(document, op))
                         /\ \A i \in 1..Len(response.data.matches) :
                               response.data.matches[i].match_end
                                  = response.data.matches[i].match_start + Len(op.query)
                /\ op.search_mode = "exact"
                      => /\ MatchesAt(response.data.matches) = WholeTexts(document, op)
                         /\ Len(response.data.matches) = Cardinality(WholeTexts(document, op))
                         /\ \A i \in 1..Len(response.data.matches) :
                               response.data.matches[i].match_end
                                  = Len(response.data.matches[i].cell_value)

\* ------------------------------------------------------------ C22
\* C22: every call changes the set of loaded paths as the claim says. A
\* successful open_document adds its path and a failed one (a missing file
\* with create_if_not_exists false among them) adds nothing; a table operation
\* adds at most its own path, only by loading a document from disk, and its
\* path is loaded whenever it succeeds; a successful save_document adds the
\* save_as path and nothing else, and on a path that is not loaded it returns
\* an error and changes nothing; close_document on a loaded path returns
\* success and removes only that path, on another path a warning and no
\* change; list_loaded_documents returns exactly the loaded paths and their
\* count.
C22_LoadedPathsAreTheOpenOnes ==
    [][LET op == response'.op
           before == LoadedPaths(document)
           after == LoadedPaths(document')
       IN  /\ op.name = "open_document"
                => /\ after = IF response'.status = "success"
                              THEN before \cup {op.file_path} ELSE before
                   /\ (document.files[op.file_path] = None /\ ~op.create_if_not_exists)
                         => response'.status = "error" /\ document' = document
           /\ op.name \in {"create_table", "list_tables", "analyze_table_structure",
                           "analyze_all_tables"}
                => /\ after \in {before, before \cup {op.file_path}}
                   /\ after # before => document.files[op.file_path] \notin {None, Broken}
                   /\ response'.status = "success" => op.file_path \in after
           /\ op.name = "save_document"
                => /\ op.file_path \notin before
                         => response'.status = "error" /\ document' = document
                   /\ op.file_path \in before
                         => /\ response'.status = "success"
                            /\ after = before \cup (IF op.save_as = None THEN {}
                                                    ELSE {op.save_as[1]})
           /\ op.name = "close_document"
                => /\ op.file_path \in before
                         => response'.status = "success" /\ after = before \ {op.file_path}
                   /\ op.file_path \notin before
                         => response'.status = "warning" /\ document' = document
           /\ op.name = "list_loaded_documents"
                => /\ response'.status = "success"
                   /\ response'.data.loaded_documents = before
                   /\ response'.data.count = Cardinality(before)
                   /\ document' = document]_vars

\* one of two loaded paths was closed and the other is still loaded
C22_Witness ==
    /\ response.op.name = "close_document"
    /\ response.status = "success"
    /\ LoadedPaths(document) = Paths \ {response.op.file_path}

\* ------------------------------------------------------------ C23
\* the sections of a formatting dict that are given, in the fixed order
GivenSections(formatting) ==
    SelectSeq(Sections, LAMBDA section : SectionGiven(formatting, section))

\* whether the cell shows the section of the formatting dict: every run
\* carries the text format, every paragraph and the cell the alignment, the
\* cell the fill and the borders
SectionShown(cell, formatting, section) ==
    IF section = "text_format"
    THEN \A i \in 1..Len(cell.paragraphs) :
            /\ cell.paragraphs[i].runs # <<>>
            /\ \A k \in 1..Len(cell.paragraphs[i].runs) :
                  LET run == cell.paragraphs[i].runs[k]
                      text_format == formatting.text_format[1]
                  IN  /\ text_format.font_family # None => run.name = text_format.font_family
                      /\ text_format.font_size # None => run.size = text_format.font_size
                      /\ text_format.font_color # None
                            => run.rgb = Some(Upper(Tail(text_format.font_color[1])))
                      /\ text_format.bold # None => run.bold = text_format.bold
                      /\ text_format.italic # None => run.italic = text_format.italic
                      /\ text_format.strikethrough # None
                            => run.strike = text_format.strikethrough
    ELSE IF section = "alignment"
    THEN /\ formatting.alignment[1].horizontal = Some(Center)
               => \A i \in 1..Len(cell.paragraphs) : cell.paragraphs[i].alignment = Some(1)
         /\ formatting.alignment[1].vertical = Some(Middle)
               => cell.tcPr # None /\ cell.tcPr[1].vAlign = Some(Some(Center))
    ELSE IF section = "background_color"
    THEN cell.tcPr # None
         /\ cell.tcPr[1].shd = Some(Some(Upper(Tail(formatting.background_color[1]))))
    ELSE /\ cell.tcPr # None
         /\ cell.tcPr[1].tcBorders # None
         /\ \A side \in {"top", "bottom", "left", "right"} :
               (cell.tcPr[1].tcBorders[1].sides[side] # None)
                  <=> (formatting.borders[1][side] # None)

\* whether the part of the cell that a section sets is as it was
SectionUntouched(before, after, section) ==
    IF section = "text_format"
    THEN /\ Len(after.paragraphs) = Len(before.paragraphs)
         /\ \A i \in 1..Len(before.paragraphs) :
               after.paragraphs[i].runs = before.paragraphs[i].runs
    ELSE IF section = "alignment"
    THEN /\ \A i \in 1..Len(before.paragraphs) :
               after.paragraphs[i].alignment = before.paragraphs[i].alignment
         /\ TcPrOf(after).vAlign = TcPrOf(before).vAlign
    ELSE IF section = "background_color" THEN TcPrOf(after).shd = TcPrOf(before).shd
    ELSE TcPrOf(after).tcBorders = TcPrOf(before).tcBorders

\* the place in `given` of the section whose error the response carries: the
\* first one when the cell was refused
FailedAt(given, error) ==
    IF error = "failed_to_format_cell_text" THEN 1
    ELSE IF error = "invalid_color_format"
    THEN CHOOSE k \in 1..Len(given) : given[k] = "background_color"
    ELSE IF error = "failed_to_set_cell_borders" THEN Len(given)
    ELSE 1

\* C23: format_cell_complete applies the sections given in the order
\* text_format, alignment, background_color, borders. When it succeeds,
\* applied_formats lists exactly the sections given, in that order, the cell
\* shows every one of them and the parts of the cell of the other sections
\* are as they were. When it fails, the error is the one of a section given,
\* the cell shows the sections given before that one, and the parts of the
\* cell that later sections set are as they were.
C23_SectionsAppliedInOrder ==
    [][response'.op.name = "format_cell_complete"
       => LET op == response'.op
              given == GivenSections(op.formatting)
              refused == CellRefused(document, op.table_index, op.row_index, op.column_index)
          IN  IF given = <<>>
              THEN /\ response'.status = "success"
                   /\ response'.data.applied_formats = <<>>
                   /\ document' = document
              ELSE IF refused # None
              THEN /\ response'.status = "error"
                   /\ response'.data = refused[1]
                   /\ document' = document
              ELSE LET before == CellOf(document, op.table_index, op.row_index, op.column_index)
                       after == CellOf(document', op.table_index, op.row_index, op.column_index)
                       failed == IF response'.status = "success" THEN Len(given) + 1
                                 ELSE FailedAt(given, response'.data.error)
                   IN  /\ response'.status \in {"success", "error"}
                       /\ response'.status = "success"
                             => response'.data.applied_formats = given
                       /\ failed \in 1..Len(given) + 1
                       /\ \A k \in 1..Len(given) :
                             /\ k < failed => SectionShown(after, op.formatting, given[k])
                             /\ k > failed => SectionUntouched(before, after, given[k])
                       /\ \A k \in 1..Len(Sections) :
                             ~SectionGiven(op.formatting, Sections[k])
                                => SectionUntouched(before, after, Sections[k])
                       /\ document' = WithCell(document, op.table_index, op.row_index,
                                               op.column_index, after)]_vars

\* the third of four sections failed: the text format and the alignment are
\* on the cell, the borders are not
C23_Witness ==
    /\ response.op.name = "format_cell_complete"
    /\ response.status = "error"
    /\ response.data = [error |-> "invalid_color_format"]
    /\ response.op.formatting.borders # None
    /\ document.tables[1].rows[1][1].paragraphs[1].runs[1].strike = Some(TRUE)
    /\ document.tables[1].rows[1][1].tcPr[1].vAlign = Some(Some(Center))
    /\ document.tables[1].rows[1][1].tcPr[1].tcBorders = None

\* ------------------------------------------------------------ C24
\* whether format_cell_text has struck through the text of the cell: every
\* paragraph has runs and every run is struck through
StruckThrough(cell) ==
    \A i \in 1..Len(cell.paragraphs) :
       /\ cell.paragraphs[i].runs # <<>>
       /\ \A k \in 1..Len(cell.paragraphs[i].runs) :
             cell.paragraphs[i].runs[k].strike = Some(TRUE)

\* C24: for a cell that format_cell_text has struck through, get_cell_value
\* with formatting reports text_format.strikethrough true, and so does the
\* cell's entry in the report of analyze_table_structure with cell details.
C24_StrikethroughIsReported ==
    (/\ document # None
     /\ response.status = "success"
     /\ response.op.name \in {"get_cell_value", "analyze_table_structure"}
     /\ StruckThrough(document.tables[1].rows[1][1]))
    => IF response.op.name = "get_cell_value"
       THEN response.data.formatting[1].text_format.strikethrough
       ELSE response.data.cells[1][1].text_format.strikethrough

\* ------------------------------------------------------------ C25
\* the caller that takes the step from `before` to `after`
Stepping(before, after) == CHOOSE c \in Callers : after.callers[c] # before.callers[c]

\* C25: nothing isolates two callers on one path. A caller that found the
\* path absent registers the object it loaded whatever was registered in the
\* meantime, so the later registration replaces the earlier one; and a
\* caller's mutation, reported as successful, goes to the object that
\* get_or_load_document returned to it and leaves the document registered
\* under the path as it was when that is another object.
C25_LaterRegistrationReplaces ==
    [][document'.callers # document.callers
       => LET c == Stepping(document, document')
              was == document.callers[c]
              now == document'.callers[c]
          IN  /\ (was.pc = "idle" /\ document.documents[now.file_path] = None)
                    => now.pc = "absent"
              /\ (was.pc = "loaded" /\ now.pc = "got")
                    => document'.documents[was.file_path] = was.document
              /\ (was.pc = "got" /\ now.pc = "done")
                    => /\ response'.status = "success"
                       /\ document'.objects[was.document[1]]
                             = document.objects[was.document[1]] + 1
                       /\ document'.documents = document.documents
                       /\ \A id \in ObjectIds \ {was.document[1]} :
                             document'.objects[id] = document.objects[id]]_vars

\* both callers found the same path absent and loaded an object each, both
\* registered, the first to register has reported success, and the document
\* registered under the path holds only the tables of the file: the table
\* that caller added is not in it
C25_Witness ==
    \E c \in Callers, d \in Callers :
       /\ c # d
       /\ document.callers[c].file_path = document.callers[d].file_path
       /\ document.callers[c].pc = "done"
       /\ document.callers[c].status = "success"
       /\ document.callers[d].pc = "got"
       /\ document.callers[c].document # document.callers[d].document
       /\ document.documents[document.callers[c].file_path] = document.callers[d].document
       /\ document.objects[document.callers[d].document[1]]
             = document.files[document.callers[c].file_path][1]
       /\ document.objects[document.callers[c].document[1]]
             = document.files[document.callers[c].file_path][1] + 1

\* ------------------------------------------------------------ C26
\* C26: analyze_table_structure and analyze_all_tables on a path that is
\* neither loaded nor on disk return an error whose message says that the
\* document is "not loaded" (the text "Document not loaded: " is the only
\* text of the program with these words).
C26_MissingDocumentIsNotLoaded ==
    (/\ response.op.name \in {"analyze_table_structure", "analyze_all_tables"}
     /\ document.documents[response.op.file_path] = None
     /\ document.files[response.op.file_path] = None)
    => /\ response.status = "error"
       /\ \E i \in 1..Len(response.data.message) :
             response.data.message[i] = "Document not loaded: "

\* C27 as stated: every merge descriptor of a report has span_rows 1, starts
\* and ends in the cell's row, starts in the cell's column, spans at least one
\* column, ends at start_col + span_cols - 1 which is no less than start_col,
\* and has a type other than none; merged_cells_count is the length of
\* merge_regions and the number of cells whose merge entry is not null.
C27_DescriptorsAreWellFormed ==
    AnalysisDone =>
        /\ \A p \in Positions(AnalyzedTable) :
              LET e == response.data.cells[p[1]][p[2]].merge
                  m == e[1]
              IN  e # None =>
                    /\ m.span_rows = 1
                    /\ m.start_row = p[1] - 1 /\ m.end_row = p[1] - 1
                    /\ m.start_col = p[2] - 1
                    /\ m.span_cols >= 1
                    /\ m.end_col = m.start_col + m.span_cols - 1
                    /\ m.end_col >= m.start_col
                    /\ m.type # "none"
        /\ response.data.merge_analysis.merged_cells_count =
              Len(response.data.merge_analysis.merge_regions)
        /\ response.data.merge_analysis.merged_cells_count =
              Cardinality({p \in Positions(AnalyzedTable) :
                              response.data.cells[p[1]][p[2]].merge # None})

\* C28 as stated: open_document called for a path that is already loaded keeps
\* the document held in memory for that path: the tables it has after the call
\* are the tables it had before, saved or not.
C28_OpenKeepsLoadedDocument ==
    [][(/\ response'.op.name = "open_document"
        /\ document.documents[response'.op.file_path] # None) =>
          /\ document'.documents[response'.op.file_path] # None
          /\ document'.objects[document'.documents[response'.op.file_path][1]] =
                document.objects[document.documents[response'.op.file_path][1]]]_vars

\* C29 as stated: format_cell_complete returns an error and leaves the document
\* as it was whenever the document is not loaded, the table index is out of
\* range or the cell position is out of range, whatever the formatting
\* argument holds, a formatting without any section included.
C29_CompleteRefusesBadTarget ==
    [][(/\ response'.op.name = "format_cell_complete"
        /\ CellRefused(document, response'.op.table_index, response'.op.row_index,
                       response'.op.column_index) # None) =>
          /\ response'.status = "error"
          /\ document' = document]_vars

\* the fill of the shading a cell stores, None when it stores none
StoredFill(cell) ==
    IF cell.tcPr # None /\ cell.tcPr[1].shd # None THEN cell.tcPr[1].shd[1] ELSE None

\* C30 as stated: after any sequence of calls on a new document the background
\* fill every cell stores is absent or a string of exactly six hexadecimal
\* digits.
C30_StoredFillIsSixHexDigits ==
    \A t \in 1..Len(document.tables) :
        \A p \in Positions(document.tables[t]) :
            LET fill == StoredFill(document.tables[t].rows[p[1]][p[2]])
            IN  fill = None \/ (Len(fill[1]) = 6 /\ \A i \in 1..6 : IsHexDigit(fill[1][i]))

====
